---- MODULE Spec2Model ----
(***************************************************************************)
(* A model of the end-to-end identity enrollment of rusty-jwt-tools:       *)
(*   - the ACME authorization response handling of acme/src/authz.rs,      *)
(*   - the enrollment pipeline driven by e2e-identity/tests/e2e.rs         *)
(*     against an ACME server that keeps a replay-nonce pool,              *)
(*   - the DPoP claims of jwt/src/dpop/mod.rs and the tokens built on them,*)
(*   - the token verification of jwt/src/jwt/verify.rs.                    *)
(***************************************************************************)
EXTENDS Integers, Sequences, FiniteSets, TLC

VARIABLES
    \* ---- authorization handling (acme/src/authz.rs) ----
    resp,            \* the JSON response handed to new_authz_response
    now,             \* the clock read by AcmeAuthz::verify, in ticks
    op,              \* the operation applied last
    out,             \* what that operation returned
    \* ---- enrollment pipeline (e2e-identity) ----
    flow,            \* which EnrollmentFlow is run (default or a test's mutation)
    pc,              \* the pipeline step about to run
    result,          \* "none" while running, "Ok" or the typed error at the end
    failedAt,        \* the step that failed, "none" otherwise
    previous_nonce,  \* the nonce handed from step to step
    account,         \* the AcmeAccount the client holds
    authz,           \* the AcmeAuthz the client holds
    challs,          \* the (dpop, oidc) challenges extracted by the client
    lastOrder,       \* the order status the client observed last
    polls,           \* polls issued in the current polling phase
    nonceFetches,    \* HEAD /new-nonce requests issued
    log,             \* every exchange with the ACME server, in issue order
    srv,             \* the ACME server: nonce pool, account, order and challenges
    tokens,          \* the backend nonce and the tokens the client holds
    \* ---- single calls: DPoP claims (jwt/src/dpop/mod.rs) and others ----
    args,            \* the arguments of the call and what it reads
    claims,          \* the JWTClaims into_jwt_claims returned
    jop,             \* the operation applied last
    \* ---- token verification (jwt/src/jwt/verify.rs) ----
    res              \* what verify_jwt, verify_jwt_header, jwt_error_mapping or
                     \* new_authz_request returned

authzVars == <<resp, now, op, out>>

flowVars == <<flow, pc, result, failedAt, previous_nonce, account, authz,
              challs, lastOrder, polls, nonceFetches, log, srv, tokens>>

jwtVars == <<args, claims, jop, res>>

vars == <<resp, now, op, out, flow, pc, result, failedAt, previous_nonce,
          account, authz, challs, lastOrder, polls, nonceFetches, log, srv,
          tokens, args, claims, jop, res>>

----------------------------------------------------------------------------
(* Bounds of the model *)

\* clock ticks in one second: OffsetDateTime is finer than unix_timestamp()
TicksPerSecond == 2

\* the latest instant, in ticks, of `now` and of `expires`
MaxTime == 5

\* the longest `challenges` list of an authorization
MaxChallenges == 2

\* polls of one polling phase before the client gives up
MaxPolls == 2

\* the longest expiry asked of into_jwt_claims, in ticks
MaxExpiry == 5

\* ticks the clock may move, either way, between the two reads of into_jwt_claims
MaxClockStep == 1

\* the latest second a time claim of a token handed to verify_jwt names
MaxJwtTime == 3

\* the largest leeway, in seconds, verify_jwt is called with
MaxLeeway == 1

\* the largest previous nonce handed to new_authz_request
MaxNonce == 4

----------------------------------------------------------------------------
(* Small helpers *)

Min(S) == CHOOSE x \in S : \A y \in S : x <= y

SeqsUpTo(S, n) == UNION {[1..k -> S] : k \in 0..n}

Ok(v) == [ok |-> TRUE, val |-> v, err |-> "none"]

Err(e) == [ok |-> FALSE, val |-> <<>>, err |-> e]

None == [some |-> FALSE, val |-> 0]

Some(v) == [some |-> TRUE, val |-> v]

----------------------------------------------------------------------------
(* acme/src/authz.rs *)

AuthzStatus == {"pending", "invalid", "valid", "revoked", "deactivated", "expired"}

AcmeAuthzError == {"AcmeAuthzError::Expired", "AcmeAuthzError::Invalid",
                   "AcmeAuthzError::Revoked", "AcmeAuthzError::Deactivated"}

ClientImplementationErrorAuthz ==
    "ClientImplementationError(An authorization is not supposed to be valid at this point.)"

AcmeChallengeType == {"http-01", "wire-dpop-01", "wire-oidc-01"}

\* a challenge of an authorization; its url and token stand for its place in the list
AcmeChallenge(typ, i) == [typ |-> typ, url |-> i, token |-> i]

ChallengeLists ==
    {[i \in DOMAIN ts |-> AcmeChallenge(ts[i], i)] : ts \in SeqsUpTo(AcmeChallengeType, MaxChallenges)}

\* Option<OffsetDateTime>, in ticks
OptTime == {None} \cup {Some(t) : t \in 0..MaxTime}

\* the `status` member of a JSON response: a variant of AuthzStatus, another
\* string, or no member at all
JsonStatus == AuthzStatus \cup {"processing", "absent"}

\* serde_json::from_value::<AcmeAuthz>: status must name a variant and the
\* non-optional members must be there
from_value(r) ==
    IF r.status \in AuthzStatus /\ r.has_challenges
    THEN Ok([status |-> r.status, expires |-> r.expires,
             challenges |-> r.challenges, identifier |-> r.identifier])
    ELSE Err("JsonError")

\* new_authz_response with the `Valid` arm falling through like `Pending`
new_authz_response_valid_ok(response) ==
    LET parsed == from_value(response) IN
    IF ~parsed.ok THEN parsed
    ELSE CASE parsed.val.status \in {"pending", "valid"} -> Ok(parsed.val)
           [] parsed.val.status = "invalid" -> Err("AcmeAuthzError::Invalid")
           [] parsed.val.status = "revoked" -> Err("AcmeAuthzError::Revoked")
           [] parsed.val.status = "deactivated" -> Err("AcmeAuthzError::Deactivated")
           [] parsed.val.status = "expired" -> Err("AcmeAuthzError::Expired")

\* new_authz_response with the `Revoked` arm returning the error of `Invalid`
new_authz_response_revoked_as_invalid(response) ==
    LET parsed == from_value(response) IN
    IF ~parsed.ok THEN parsed
    ELSE CASE parsed.val.status = "pending" -> Ok(parsed.val)
           [] parsed.val.status = "invalid" -> Err("AcmeAuthzError::Invalid")
           [] parsed.val.status = "revoked" -> Err("AcmeAuthzError::Invalid")
           [] parsed.val.status = "deactivated" -> Err("AcmeAuthzError::Deactivated")
           [] parsed.val.status = "expired" -> Err("AcmeAuthzError::Expired")
           [] parsed.val.status = "valid" -> Err(ClientImplementationErrorAuthz)

new_authz_response(response) ==
    LET parsed == from_value(response) IN
    IF ~parsed.ok THEN parsed
    ELSE CASE parsed.val.status = "pending" -> Ok(parsed.val)
           [] parsed.val.status = "invalid" -> Err("AcmeAuthzError::Invalid")
           [] parsed.val.status = "revoked" -> Err("AcmeAuthzError::Revoked")
           [] parsed.val.status = "deactivated" -> Err("AcmeAuthzError::Deactivated")
           [] parsed.val.status = "expired" -> Err("AcmeAuthzError::Expired")
           [] parsed.val.status = "valid" -> Err(ClientImplementationErrorAuthz)

find(challenges, typ) ==
    LET hits == {i \in DOMAIN challenges : challenges[i].typ = typ} IN
    IF hits = {} THEN None ELSE Some(challenges[Min(hits)])

http_challenge(a) == find(a.challenges, "http-01")

\* wire_dpop_challenge taking the first challenge whatever its type
wire_dpop_challenge_first(a) ==
    IF a.challenges = <<>> THEN None ELSE Some(a.challenges[1])

wire_dpop_challenge(a) == find(a.challenges, "wire-dpop-01")

wire_oidc_challenge(a) == find(a.challenges, "wire-oidc-01")

\* OffsetDateTime::unix_timestamp: whole seconds, the fraction dropped
unix_timestamp(t) == t \div TicksPerSecond

\* is_expired with `expires <= now` in place of `expires < now`
is_expired_le(a, t) ==
    IF a.expires.some THEN unix_timestamp(a.expires.val) <= unix_timestamp(t) ELSE FALSE

is_expired(a, t) ==
    IF a.expires.some THEN unix_timestamp(a.expires.val) < unix_timestamp(t) ELSE FALSE

\* verify also reporting an authorization whose status is `expired`
verify_by_status(a, t) ==
    IF is_expired(a, t) \/ a.status = "expired"
    THEN Err("AcmeAuthzError::Expired") ELSE Ok(<<>>)

verify(a, t) == IF is_expired(a, t) THEN Err("AcmeAuthzError::Expired") ELSE Ok(<<>>)

\* the AcmeAuthz a response holds when it deserializes (any status)
AuthzOf(r) == from_value(r).val

\* ---- the JSON form of an authorization (serde derive of AcmeAuthz) ----

\* the challenge types serde knows: those authz.rs selects, and dns-01 of
\* the RFC 8555 sample
KnownChallengeTypes == AcmeChallengeType \cup {"dns-01"}

\* an RFC 3339 text in UTC: the second it names, the ticks of its fraction,
\* and how its offset is spelled
Rfc3339(secs, frac, off) == [present |-> TRUE, wf |-> TRUE, secs |-> secs, frac |-> frac, off |-> off]

\* no `expires` member
NoExpires == [present |-> FALSE, wf |-> TRUE, secs |-> 0, frac |-> 0, off |-> "Z"]

\* an `expires` member that is not an RFC 3339 text
BadExpires == [present |-> TRUE, wf |-> FALSE, secs |-> 0, frac |-> 0, off |-> ""]

\* time::serde::rfc3339 deserialize: the instant, in ticks
rfc3339_parse(text) == text.secs * TicksPerSecond + text.frac

\* time::serde::rfc3339 serialize of a UTC OffsetDateTime: the offset is
\* written `Z`
rfc3339_format(t) == Rfc3339(t \div TicksPerSecond, t % TicksPerSecond, "Z")

\* a challenge object of the JSON and the AcmeChallenge it stands for
JsonChallenge(typ, url, token) == [type |-> typ, url |-> url, token |-> token]

challenge_from_json(c) == [typ |-> c.type, url |-> c.url, token |-> c.token]

challenge_to_json(c) == JsonChallenge(c.typ, c.url, c.token)

\* Deserialize for AcmeAuthz on a JSON document: `expires` through
\* rfc3339::option, each challenge through AcmeChallenge, unknown members
\* ignored, the rest as from_value
from_json(j) ==
    IF j.expires.present /\ ~j.expires.wf THEN Err("JsonError")
    ELSE IF \E i \in DOMAIN j.challenges : j.challenges[i].type \notin KnownChallengeTypes
    THEN Err("JsonError")
    ELSE from_value([status |-> j.status,
                     expires |-> IF j.expires.present THEN Some(rfc3339_parse(j.expires))
                                 ELSE None,
                     challenges |-> [i \in DOMAIN j.challenges |->
                                        challenge_from_json(j.challenges[i])],
                     has_challenges |-> j.has_challenges,
                     identifier |-> j.identifier])

\* Serialize for AcmeAuthz leaving `expires` out always
to_json_no_expires(a) ==
    [status |-> a.status,
     expires |-> NoExpires,
     challenges |-> [i \in DOMAIN a.challenges |-> challenge_to_json(a.challenges[i])],
     has_challenges |-> TRUE,
     identifier |-> a.identifier,
     extra |-> FALSE]

\* Serialize for AcmeAuthz: status in lowercase, `expires` skipped when None
\* and written as RFC 3339 otherwise, the challenges and the identifier
to_json(a) ==
    [status |-> a.status,
     expires |-> IF a.expires.some THEN rfc3339_format(a.expires.val) ELSE NoExpires,
     challenges |-> [i \in DOMAIN a.challenges |-> challenge_to_json(a.challenges[i])],
     has_challenges |-> TRUE,
     identifier |-> a.identifier,
     extra |-> FALSE]

----------------------------------------------------------------------------
(* Specification of the authorization handling: the inputs are drawn by    *)
(* Init, each action applies one operation of acme/src/authz.rs.           *)

Responses ==
    [status : JsonStatus, expires : OptTime, challenges : ChallengeLists,
     has_challenges : BOOLEAN, identifier : {"wireapp-id"}]

\* the client holds no authorization and no challenges yet
NoAuthz == [status |-> "none", expires |-> None, challenges |-> <<>>, identifier |-> "none"]

NoChalls == [dpop |-> AcmeChallenge("none", 0), oidc |-> AcmeChallenge("none", 0)]

IdleFlow ==
    /\ flow = "none"
    /\ pc = "idle"
    /\ result = "none"
    /\ failedAt = "none"
    /\ previous_nonce = 0
    /\ account = [acct_url |-> None]
    /\ authz = NoAuthz
    /\ challs = NoChalls
    /\ lastOrder = "none"
    /\ polls = 0
    /\ nonceFetches = 0
    /\ log = <<>>
    /\ srv = <<>>
    /\ tokens = <<>>

\* no DPoP claims are being built
IdleJwt ==
    /\ args = <<>>
    /\ claims = <<>>
    /\ jop = "idle"
    /\ res = <<>>

InitAuthz ==
    /\ resp \in Responses
    /\ now \in 0..MaxTime
    /\ op = "init"
    /\ out = Err("none")
    /\ IdleFlow
    /\ IdleJwt

NewAuthzResponse ==
    /\ op = "init"
    /\ op' = "new_authz_response"
    /\ out' = new_authz_response(resp)
    /\ UNCHANGED <<resp, now>>
    /\ UNCHANGED <<flowVars, jwtVars>>

Verify ==
    /\ op = "init"
    /\ from_value(resp).ok
    /\ op' = "verify"
    /\ out' = verify(AuthzOf(resp), now)
    /\ UNCHANGED <<resp, now>>
    /\ UNCHANGED <<flowVars, jwtVars>>

SelectChallenge ==
    /\ op = "init"
    /\ from_value(resp).ok
    /\ \E f \in {"http_challenge", "wire_dpop_challenge", "wire_oidc_challenge"} :
          /\ op' = f
          /\ out' = CASE f = "http_challenge" -> http_challenge(AuthzOf(resp))
                      [] f = "wire_dpop_challenge" -> wire_dpop_challenge(AuthzOf(resp))
                      [] f = "wire_oidc_challenge" -> wire_oidc_challenge(AuthzOf(resp))
    /\ UNCHANGED <<resp, now>>
    /\ UNCHANGED <<flowVars, jwtVars>>

NextAuthz == NewAuthzResponse \/ Verify \/ SelectChallenge

SpecAuthz == InitAuthz /\ [][NextAuthz]_vars

----------------------------------------------------------------------------
(* Specification of the JSON form of an authorization: Init draws a JSON   *)
(* document, the actions deserialize it and serialize the result again.    *)

\* the RFC 8555 sample of can_deserialize_sample_response
rfc_sample ==
    [status |-> "pending",
     expires |-> Rfc3339(1, 0, "Z"),
     identifier |-> [type |-> "wireapp-id", value |-> "www.example.org"],
     challenges |-> <<JsonChallenge("http-01", 1, 1), JsonChallenge("dns-01", 2, 1)>>,
     has_challenges |-> TRUE,
     extra |-> FALSE]

JsonTimes ==
    {NoExpires, BadExpires}
        \cup {Rfc3339(secs, frac, off) :
                secs \in 0..1, frac \in 0..(TicksPerSecond - 1), off \in {"Z", "+00:00"}}

JsonChallengeLists ==
    {[i \in DOMAIN ts |-> JsonChallenge(ts[i], i, 1)] :
        ts \in SeqsUpTo(KnownChallengeTypes \cup {"tls-sni-01"}, MaxChallenges)}

\* JSON documents: the sample among them, each member varied, with or
\* without a member AcmeAuthz does not know
JsonDocuments ==
    [status : JsonStatus, expires : JsonTimes,
     identifier : {[type |-> "wireapp-id", value |-> "www.example.org"]},
     challenges : JsonChallengeLists, has_challenges : BOOLEAN, extra : BOOLEAN]

InitJson ==
    /\ resp \in JsonDocuments
    /\ now = 0
    /\ op = "init"
    /\ out = Err("none")
    /\ IdleFlow
    /\ IdleJwt

\* serde_json::from_value::<AcmeAuthz>
Deserialize ==
    /\ op = "init"
    /\ op' = "from_value"
    /\ out' = from_json(resp)
    /\ UNCHANGED <<resp, now>>
    /\ UNCHANGED <<flowVars, jwtVars>>

\* serde_json::to_value of the AcmeAuthz just deserialized
Serialize ==
    /\ op = "from_value"
    /\ out.ok
    /\ op' = "to_value"
    /\ out' = Ok(to_json(out.val))
    /\ UNCHANGED <<resp, now>>
    /\ UNCHANGED <<flowVars, jwtVars>>

NextJson == Deserialize \/ Serialize

SpecJson == InitJson /\ [][NextJson]_vars

----------------------------------------------------------------------------
(* The enrollment pipeline.  The flows are the default one and the ones the *)
(* tests of e2e-identity/tests/e2e.rs build by replacing one step.          *)

Flows ==
    {"default", "no_replay_nonce_requested", "replay_nonce_reused",
     "challenges_inverted",
     "dpop_challenge_signed_by_a_different_key",
     "oidc_challenge_signed_by_a_different_key",
     "access_token_client_id_mismatches",
     "access_token_iss_mismatches_target",
     "access_token_device_id_mismatches_target",
     "client_dpop_token_has_wrong_kid",
     "invalid_dpop_audience",
     "invalid_keyauth"}

\* rand_base64_str(42): a nonce the ACME server has not generated
UnknownNonce == 0

Url(path, id) == [path |-> path, id |-> id]

\* ---- identifiers, keys and urls the tokens carry ----

\* E2eTest.sub, the ClientId of the enrollment
test_sub == [user |-> "alice", device |-> 1, domain |-> "wire.com"]

\* rand_client_id(Some(device_id)): another user on the same device
rand_client_id(device) == [user |-> "rand", device |-> device, domain |-> "wire.com"]

ClientIds == {test_sub, rand_client_id(test_sub.device), [test_sub EXCEPT !.device = 42]}

\* ClientId::to_uri: the wireapp:// URI naming user, device and domain
to_uri(c) == [scheme |-> "wireapp", host |-> c.domain, path |-> c.user, device |-> c.device]

\* the access-token endpoint of wire-server for one device, the `target` of
\* the wire-dpop-01 challenge
Htu(host, device) ==
    [scheme |-> "https", host |-> host, path |-> "clients/access-token", device |-> device]

\* the JWK of a key pair and its RFC 7638 thumbprint
public_key(kp) == [kty |-> "OKP", x |-> kp]

thumbprint(jwk) == [hash |-> "SHA-256", of |-> jwk.x]

\* the key authorization: token "." thumbprint
keyauth(token, thumb) == [token |-> token, sep |-> ".", thumbprint |-> thumb]

NoneStr == [some |-> FALSE, val |-> ""]

NoneUri == [some |-> FALSE, val |-> [scheme |-> "", host |-> "", path |-> "", device |-> 0]]

NoneUrl == [some |-> FALSE, val |-> Url("", 0)]

NoneSet == [some |-> FALSE, val |-> {}]

\* ---- jwt/src/dpop/mod.rs ----

\* Duration::from_secs and Duration::as_secs, durations being counted in ticks
from_secs(secs) == secs * TicksPerSecond

as_secs(d) == d \div TicksPerSecond

NOW_LEEWAY_SECONDS == 3600

Dpop(htm, htu, challenge, handle, team) ==
    [htm |-> htm, htu |-> htu, challenge |-> challenge, handle |-> handle, team |-> team]

\* Claims::with_custom_claims of jwt_simple: the claims are dated by the clock
\* it reads, and expire valid_for later
with_custom_claims(custom, valid_for, clock) ==
    [issued_at |-> Some(clock), expires_at |-> Some(clock + valid_for),
     invalid_before |-> Some(clock), issuer |-> NoneUri, subject |-> NoneUri,
     audiences |-> NoneUrl, jwt_id |-> NoneStr, nonce |-> NoneStr, custom |-> custom]

\* into_jwt_claims leaving the audience out
into_jwt_claims_no_audience(self, nonce, client_id, expiry, audience, env) ==
    LET expiry_c == from_secs(as_secs(expiry))
        now_l == env.now - from_secs(NOW_LEEWAY_SECONDS)
    IN  [with_custom_claims(self, expiry_c, env.claims_now) EXCEPT
            !.invalid_before = Some(now_l),
            !.jwt_id = Some(env.jti),
            !.nonce = Some(nonce),
            !.subject = Some(to_uri(client_id)),
            !.issued_at = Some(now_l)]

\* into_jwt_claims counting the expiry from `iat`
into_jwt_claims_exp_from_iat(self, nonce, client_id, expiry, audience, env) ==
    LET expiry_c == from_secs(as_secs(expiry))
        now_l == env.now - from_secs(NOW_LEEWAY_SECONDS)
    IN  [with_custom_claims(self, expiry_c, env.claims_now) EXCEPT
            !.audiences = Some(audience),
            !.invalid_before = Some(now_l),
            !.jwt_id = Some(env.jti),
            !.nonce = Some(nonce),
            !.subject = Some(to_uri(client_id)),
            !.issued_at = Some(now_l),
            !.expires_at = Some(now_l + expiry_c)]

\* into_jwt_claims without its last assignment, `claims.issued_at = Some(now)`
into_jwt_claims_iat_unset(self, nonce, client_id, expiry, audience, env) ==
    LET expiry_c == from_secs(as_secs(expiry))
        now_l == env.now - from_secs(NOW_LEEWAY_SECONDS)
    IN  [with_custom_claims(self, expiry_c, env.claims_now) EXCEPT
            !.audiences = Some(audience),
            !.invalid_before = Some(now_l),
            !.jwt_id = Some(env.jti),
            !.nonce = Some(nonce),
            !.subject = Some(to_uri(client_id))]

\* into_jwt_claims dating `iat` and `nbf` after the clock instead of before
into_jwt_claims_ahead(self, nonce, client_id, expiry, audience, env) ==
    LET expiry_c == from_secs(as_secs(expiry))
        now_l == env.now + from_secs(NOW_LEEWAY_SECONDS)
    IN  [with_custom_claims(self, expiry_c, env.claims_now) EXCEPT
            !.audiences = Some(audience),
            !.invalid_before = Some(now_l),
            !.jwt_id = Some(env.jti),
            !.nonce = Some(nonce),
            !.subject = Some(to_uri(client_id)),
            !.issued_at = Some(now_l)]

\* Dpop::into_jwt_claims.  env is what the call reads from its environment:
\* env.now is the clock read on its second line, env.claims_now the clock read
\* by with_custom_claims right after, env.jti the result of new_jti().
into_jwt_claims(self, nonce, client_id, expiry, audience, env) ==
    LET expiry_c == from_secs(as_secs(expiry))
        now_l == env.now - from_secs(NOW_LEEWAY_SECONDS)
    IN  [with_custom_claims(self, expiry_c, env.claims_now) EXCEPT
            !.audiences = Some(audience),
            !.invalid_before = Some(now_l),
            !.jwt_id = Some(env.jti),
            !.nonce = Some(nonce),
            !.subject = Some(to_uri(client_id)),
            !.issued_at = Some(now_l)]

\* the typed error of a step whose request is refused
StepError(step) ==
    CASE step = "get_directory" -> "DirectoryError"
      [] step = "get_acme_nonce" -> "NonceError"
      [] step = "new_account" -> "AccountCreationError"
      [] step = "new_order" -> "OrderCreationError"
      [] step = "new_authz" -> "AuthzCreationError"
      [] step = "get_backend_nonce" -> "WireServerError"
      [] step = "get_access_token" -> "WireServerError"
      [] step = "verify_dpop_challenge" -> "DpopChallengeError"
      [] step = "fetch_id_token" -> "IdTokenError"
      [] step = "verify_oidc_challenge" -> "OidcChallengeError"
      [] step = "check_order" -> "OrderError"
      [] step = "finalize" -> "FinalizeError"
      [] step = "poll_order" -> "OrderError"
      [] step = "get_certificate" -> "CertificateError"

\* ---- jwt/src/jwt/verify.rs ----

\* VerificationOptions::from(&Verify) accepting any subject
VerificationOptions_any_subject(v) ==
    [accept_future |-> FALSE,
     required_subject |-> NoneUri,
     required_nonce |-> v.backend_nonce,
     time_tolerance |-> Some(from_secs(v.leeway)),
     allowed_issuers |-> IF v.issuer.some THEN Some({v.issuer.val}) ELSE NoneSet]

\* VerificationOptions::from(&Verify) accepting any issuer
VerificationOptions_any_issuer(v) ==
    [accept_future |-> FALSE,
     required_subject |-> Some(to_uri(v.client_id)),
     required_nonce |-> v.backend_nonce,
     time_tolerance |-> Some(from_secs(v.leeway)),
     allowed_issuers |-> NoneSet]

\* VerificationOptions::from(&Verify) requiring no nonce
VerificationOptions_any_nonce(v) ==
    [accept_future |-> FALSE,
     required_subject |-> Some(to_uri(v.client_id)),
     required_nonce |-> NoneStr,
     time_tolerance |-> Some(from_secs(v.leeway)),
     allowed_issuers |-> IF v.issuer.some THEN Some({v.issuer.val}) ELSE NoneSet]

\* VerificationOptions::from(&Verify) without time tolerance
VerificationOptions_no_tolerance(v) ==
    [accept_future |-> FALSE,
     required_subject |-> Some(to_uri(v.client_id)),
     required_nonce |-> v.backend_nonce,
     time_tolerance |-> None,
     allowed_issuers |-> IF v.issuer.some THEN Some({v.issuer.val}) ELSE NoneSet]

\* VerificationOptions::from(&Verify) accepting tokens not valid yet
VerificationOptions_accept_future(v) ==
    [accept_future |-> TRUE,
     required_subject |-> Some(to_uri(v.client_id)),
     required_nonce |-> v.backend_nonce,
     time_tolerance |-> Some(from_secs(v.leeway)),
     allowed_issuers |-> IF v.issuer.some THEN Some({v.issuer.val}) ELSE NoneSet]

\* impl From<&Verify> for VerificationOptions
VerificationOptions(v) ==
    [accept_future |-> FALSE,
     required_subject |-> Some(to_uri(v.client_id)),
     required_nonce |-> v.backend_nonce,
     time_tolerance |-> Some(from_secs(v.leeway)),
     allowed_issuers |-> IF v.issuer.some THEN Some({v.issuer.val}) ELSE NoneSet]

\* verify_token not checking `iat` against the clock
verify_token_no_drift(c, options, clock) ==
    IF ~options.accept_future /\ c.invalid_before.some
            /\ clock + (IF options.time_tolerance.some
                        THEN options.time_tolerance.val ELSE 0) < c.invalid_before.val
    THEN Err("Token not valid yet")
    ELSE IF c.expires_at.some
            /\ clock - (IF options.time_tolerance.some
                        THEN options.time_tolerance.val ELSE 0) > c.expires_at.val
    THEN Err("Token has expired")
    ELSE IF options.allowed_issuers.some /\ ~c.issuer.some THEN Err("Required issuer missing")
    ELSE IF options.allowed_issuers.some /\ c.issuer.val \notin options.allowed_issuers.val
    THEN Err("Required issuer mismatch")
    ELSE IF options.required_subject.some /\ ~c.subject.some THEN Err("Required subject missing")
    ELSE IF options.required_subject.some /\ c.subject.val # options.required_subject.val
    THEN Err("Required subject mismatch")
    ELSE IF options.required_nonce.some /\ ~c.nonce.some THEN Err("Required nonce missing")
    ELSE IF options.required_nonce.some /\ c.nonce.val # options.required_nonce.val
    THEN Err("Required nonce mismatch")
    ELSE Ok(<<>>)

\* what verify_token checks of the claims of a token whose signature holds,
\* in the order of the library's JWTClaims::validate: the times against the
\* clock it reads, widened by the tolerance (the clock is never earlier than
\* the tolerance), then the issuer, subject and nonce the options require.
\* The error is the library's reason text.
verify_token(c, options, clock) ==
    IF c.issued_at.some
       /\ c.issued_at.val > clock + (IF options.time_tolerance.some
                                     THEN options.time_tolerance.val ELSE 0)
    THEN Err("Clock drift detected")
    ELSE IF ~options.accept_future /\ c.invalid_before.some
            /\ clock + (IF options.time_tolerance.some
                        THEN options.time_tolerance.val ELSE 0) < c.invalid_before.val
    THEN Err("Token not valid yet")
    ELSE IF c.expires_at.some
            /\ clock - (IF options.time_tolerance.some
                        THEN options.time_tolerance.val ELSE 0) > c.expires_at.val
    THEN Err("Token has expired")
    ELSE IF options.allowed_issuers.some /\ ~c.issuer.some THEN Err("Required issuer missing")
    ELSE IF options.allowed_issuers.some /\ c.issuer.val \notin options.allowed_issuers.val
    THEN Err("Required issuer mismatch")
    ELSE IF options.required_subject.some /\ ~c.subject.some THEN Err("Required subject missing")
    ELSE IF options.required_subject.some /\ c.subject.val # options.required_subject.val
    THEN Err("Required subject mismatch")
    ELSE IF options.required_nonce.some /\ ~c.nonce.some THEN Err("Required nonce missing")
    ELSE IF options.required_nonce.some /\ c.nonce.val # options.required_nonce.val
    THEN Err("Required nonce mismatch")
    ELSE Ok(<<>>)

\* a reason text of the library: `head`, then whatever follows it
Reason(head, tail) == [head |-> head, tail |-> tail]

Exact(text) == Reason(text, "")

\* `r` is exactly `text`
is(r, text) == r.head = text /\ r.tail = ""

\* str::starts_with
starts_with(r, prefix) == r.head = prefix

\* RustyJwtError values: MissingTokenClaim names a claim, InvalidToken keeps
\* the reason, the other kinds carry nothing
MissingTokenClaim(claim) == [kind |-> "MissingTokenClaim", claim |-> claim, reason |-> Exact("")]

\* InvalidToken keeping only the beginning of the reason
InvalidToken_truncated(reason) ==
    [kind |-> "InvalidToken", claim |-> "", reason |-> Exact(reason.head)]

InvalidToken(reason) == [kind |-> "InvalidToken", claim |-> "", reason |-> reason]

RustyJwtError(kind) == [kind |-> kind, claim |-> "", reason |-> Exact("")]

\* jwt_error_mapping reporting a nonce mismatch as a subject mismatch
jwt_error_mapping_merged(reason) ==
    CASE is(reason, "Required subject missing") -> MissingTokenClaim("sub")
      [] is(reason, "Required nonce missing") -> MissingTokenClaim("nonce")
      [] is(reason, "Required subject mismatch") -> RustyJwtError("TokenSubMismatch")
      [] is(reason, "Required nonce mismatch") -> RustyJwtError("TokenSubMismatch")
      [] is(reason, "Required issuer mismatch") -> RustyJwtError("DpopHtuMismatch")
      [] is(reason, "Clock drift detected") -> RustyJwtError("InvalidDpopIat")
      [] is(reason, "Token not valid yet") -> RustyJwtError("DpopNotYetValid")
      [] is(reason, "Token has expired") -> RustyJwtError("TokenExpired")
      [] is(reason, "Invalid JWK in DPoP token") -> RustyJwtError("InvalidDpopJwk")
      [] is(reason, "Required issuer missing") -> RustyJwtError("MissingIssuer")
      [] starts_with(reason, "missing field chal") -> MissingTokenClaim("chal")
      [] starts_with(reason, "missing field htm") -> MissingTokenClaim("htm")
      [] starts_with(reason, "missing field htu") -> MissingTokenClaim("htu")
      [] starts_with(reason, "missing field cnf") -> MissingTokenClaim("cnf")
      [] starts_with(reason, "missing field proof") -> MissingTokenClaim("proof")
      [] starts_with(reason, "missing field api_version") -> MissingTokenClaim("api_version")
      [] starts_with(reason, "missing field client_id") -> MissingTokenClaim("client_id")
      [] starts_with(reason, "missing field scope") -> MissingTokenClaim("scope")
      [] starts_with(reason, "missing field handle") -> MissingTokenClaim("handle")
      [] OTHER -> InvalidToken(reason)

\* jwt_error_mapping: the arms of the match, in order (the reason texts are
\* the library's, the back quotes around a field name left out)
jwt_error_mapping(reason) ==
    CASE is(reason, "Required subject missing") -> MissingTokenClaim("sub")
      [] is(reason, "Required nonce missing") -> MissingTokenClaim("nonce")
      [] is(reason, "Required subject mismatch") -> RustyJwtError("TokenSubMismatch")
      [] is(reason, "Required nonce mismatch") -> RustyJwtError("DpopNonceMismatch")
      [] is(reason, "Required issuer mismatch") -> RustyJwtError("DpopHtuMismatch")
      [] is(reason, "Clock drift detected") -> RustyJwtError("InvalidDpopIat")
      [] is(reason, "Token not valid yet") -> RustyJwtError("DpopNotYetValid")
      [] is(reason, "Token has expired") -> RustyJwtError("TokenExpired")
      [] is(reason, "Invalid JWK in DPoP token") -> RustyJwtError("InvalidDpopJwk")
      [] is(reason, "Required issuer missing") -> RustyJwtError("MissingIssuer")
      [] starts_with(reason, "missing field chal") -> MissingTokenClaim("chal")
      [] starts_with(reason, "missing field htm") -> MissingTokenClaim("htm")
      [] starts_with(reason, "missing field htu") -> MissingTokenClaim("htu")
      [] starts_with(reason, "missing field cnf") -> MissingTokenClaim("cnf")
      [] starts_with(reason, "missing field proof") -> MissingTokenClaim("proof")
      [] starts_with(reason, "missing field api_version") -> MissingTokenClaim("api_version")
      [] starts_with(reason, "missing field client_id") -> MissingTokenClaim("client_id")
      [] starts_with(reason, "missing field scope") -> MissingTokenClaim("scope")
      [] starts_with(reason, "missing field handle") -> MissingTokenClaim("handle")
      [] OTHER -> InvalidToken(reason)

\* JwsAlgorithm::try_from accepting ES512 as well
try_from_es512(alg) ==
    CASE alg = "EdDSA" -> Ok("Ed25519")
      [] alg = "ES256" -> Ok("P256")
      [] alg = "ES384" -> Ok("P384")
      [] alg = "ES512" -> Ok("P521")
      [] OTHER -> Err("UnsupportedAlgorithm")

\* JwsAlgorithm::try_from(&str): the header names of Ed25519, ES256 and ES384
try_from(alg) ==
    CASE alg = "EdDSA" -> Ok("Ed25519")
      [] alg = "ES256" -> Ok("P256")
      [] alg = "ES384" -> Ok("P384")
      [] OTHER -> Err("UnsupportedAlgorithm")

\* verify_jwt_header accepting ES512 as well
verify_jwt_header_es512(metadata) == try_from_es512(metadata.alg)

\* TokenMetadata::verify_jwt_header
verify_jwt_header(metadata) == try_from(metadata.alg)

\* the fields serde requires of the claims of a DPoP token, under their
\* names in the token and in the order the struct declares them
DpopFields == <<"htm", "htu", "chal", "handle", "team">>

\* the custom claims a serialized Dpop carries: none of its fields is optional
DpopJson == {DpopFields[i] : i \in 1..Len(DpopFields)}

\* Serialize for Dpop: every field of the struct under its name in the token
serialize_dpop(self) ==
    {IF field = "challenge" THEN "chal" ELSE field : field \in DOMAIN self}

\* Deserialize for Dpop: the first declared field the token does not carry
\* fails it, with serde's reason text (back quotes left out)
deserialize_dpop(custom) ==
    LET missing == {i \in 1..Len(DpopFields) : DpopFields[i] \notin custom}
    IN  IF missing = {} THEN Ok(<<>>)
        ELSE Err("missing field " \o
                 DpopFields[CHOOSE i \in missing : \A j \in missing : i <= j])

\* key.verify_token of the library on a token whose claims are read as
\* JWTClaims<Dpop>: the signature under `key`, then the claims decoded, then
\* validated
key_verify_token(token, key, options, clock) ==
    IF public_key(token.sig) # key THEN Err("Invalid signature")
    ELSE IF ~deserialize_dpop(token.claims.custom).ok
    THEN Err(deserialize_dpop(token.claims.custom).err)
    ELSE verify_token(token.claims, options, clock)

\* verify_jwt bounding the lifetime `exp - iat` instead of `exp`
verify_jwt_lifetime(token, key, max_expiration, v, clock) ==
    LET checked == key_verify_token(token, key, VerificationOptions(v), clock)
        c == token.claims
    IN  IF ~checked.ok THEN Err(jwt_error_mapping(Exact(checked.err)))
        ELSE IF ~c.jwt_id.some THEN Err(MissingTokenClaim("jti"))
        ELSE IF ~c.expires_at.some THEN Err(MissingTokenClaim("exp"))
        ELSE IF ~c.issued_at.some THEN Err(MissingTokenClaim("iat"))
        ELSE IF ~c.invalid_before.some THEN Err(MissingTokenClaim("nbf"))
        ELSE IF c.expires_at.val - c.issued_at.val > from_secs(max_expiration)
        THEN Err(RustyJwtError("TokenLivesTooLong"))
        ELSE Ok(c)

\* verify_jwt not enforcing the presence of `jti`
verify_jwt_no_jti(token, key, max_expiration, v, clock) ==
    LET checked == key_verify_token(token, key, VerificationOptions(v), clock)
        c == token.claims
    IN  IF ~checked.ok THEN Err(jwt_error_mapping(Exact(checked.err)))
        ELSE IF ~c.expires_at.some THEN Err(MissingTokenClaim("exp"))
        ELSE IF ~c.issued_at.some THEN Err(MissingTokenClaim("iat"))
        ELSE IF ~c.invalid_before.some THEN Err(MissingTokenClaim("nbf"))
        ELSE IF c.expires_at.val > from_secs(max_expiration)
        THEN Err(RustyJwtError("TokenLivesTooLong"))
        ELSE Ok(c)

\* verify_jwt asking for `iat` before `jti` and `exp`
verify_jwt_iat_first(token, key, max_expiration, v, clock) ==
    LET checked == key_verify_token(token, key, VerificationOptions(v), clock)
        c == token.claims
    IN  IF ~checked.ok THEN Err(jwt_error_mapping(Exact(checked.err)))
        ELSE IF ~c.issued_at.some THEN Err(MissingTokenClaim("iat"))
        ELSE IF ~c.jwt_id.some THEN Err(MissingTokenClaim("jti"))
        ELSE IF ~c.expires_at.some THEN Err(MissingTokenClaim("exp"))
        ELSE IF ~c.invalid_before.some THEN Err(MissingTokenClaim("nbf"))
        ELSE IF c.expires_at.val > from_secs(max_expiration)
        THEN Err(RustyJwtError("TokenLivesTooLong"))
        ELSE Ok(c)

\* verify_jwt: the library's verification with its errors mapped, the
\* presence of jti, exp, iat and nbf, then `exp` against `max_expiration`
verify_jwt(token, key, max_expiration, v, clock) ==
    LET checked == key_verify_token(token, key, VerificationOptions(v), clock)
        c == token.claims
    IN  IF ~checked.ok THEN Err(jwt_error_mapping(Exact(checked.err)))
        ELSE IF ~c.jwt_id.some THEN Err(MissingTokenClaim("jti"))
        ELSE IF ~c.expires_at.some THEN Err(MissingTokenClaim("exp"))
        ELSE IF ~c.issued_at.some THEN Err(MissingTokenClaim("iat"))
        ELSE IF ~c.invalid_before.some THEN Err(MissingTokenClaim("nbf"))
        ELSE IF c.expires_at.val > from_secs(max_expiration)
        THEN Err(RustyJwtError("TokenLivesTooLong"))
        ELSE Ok(c)

\* ---- the tokens of the ceremony ----

\* RustyJwtTools::generate_dpop_token: the claims of into_jwt_claims under a
\* header carrying the JWK of the signing key
generate_dpop_token(dpop, client_id, nonce, audience, expiry, alg, kp, env) ==
    [header |-> [typ |-> "dpop+jwt", alg |-> alg, jwk |-> public_key(kp)],
     claims |-> into_jwt_claims(dpop, nonce, client_id, expiry, audience, env),
     sig |-> kp]

\* the claims of an access token: cnf.kid is the thumbprint of the proof's JWK
AccessClaims(dpop_token, client_id, handle, team, nonce, htu, htm, api_version, expiry, env) ==
    [with_custom_claims([cnf_kid |-> thumbprint(dpop_token.header.jwk),
                         proof |-> dpop_token,
                         client_id |-> to_uri(client_id),
                         api_version |-> api_version,
                         scope |-> "wire_client_id",
                         chal |-> dpop_token.claims.custom.challenge,
                         handle |-> handle, team |-> team, htm |-> htm],
                        from_secs(as_secs(expiry)), env.claims_now) EXCEPT
        !.issuer = Some(htu),
        !.subject = Some(to_uri(client_id)),
        !.nonce = Some(nonce),
        !.jwt_id = Some(env.jti)]

\* RustyJwtTools::generate_access_token: wire-server verifies the client's
\* DPoP token against the client, nonce, htu and handle it knows, then seals
\* it in the access token it signs
generate_access_token(dpop_token, client_id, handle, team, nonce, htu, htm, leeway, backend_kp, api_version, expiry, env) ==
    LET v == [client_id |-> client_id, backend_nonce |-> Some(nonce), leeway |-> leeway,
              issuer |-> NoneUri]
        checked == verify_token(dpop_token.claims, VerificationOptions(v), env.claims_now)
    IN  IF dpop_token.header.jwk # public_key(dpop_token.sig) THEN Err("InvalidDpopJwk")
        ELSE IF ~checked.ok THEN Err(checked.err)
        ELSE IF dpop_token.claims.custom.htu # htu THEN Err("DpopHtuMismatch")
        ELSE IF dpop_token.claims.custom.htm # htm THEN Err("DpopHtmMismatch")
        ELSE IF dpop_token.claims.custom.handle # handle THEN Err("DpopHandleMismatch")
        ELSE IF dpop_token.claims.custom.team # team THEN Err("DpopTeamMismatch")
        ELSE Ok([header |-> [typ |-> "at+jwt", alg |-> dpop_token.header.alg,
                             jwk |-> public_key(backend_kp)],
                 claims |-> AccessClaims(dpop_token, client_id, handle, team, nonce, htu,
                                         htm, api_version, expiry, env),
                 sig |-> backend_kp])

\* the id-token of the identity provider for one OIDC challenge
IdToken(keyauth_value, audience, name) ==
    [keyauth |-> keyauth_value, acme_aud |-> audience, name |-> name, sig |-> "idp_kp"]

NoDpopToken ==
    generate_dpop_token(Dpop("none", NoneUri.val, 0, "none", "none"), test_sub, "",
                        NoneUrl.val, 0, "none", "none",
                        [now |-> from_secs(NOW_LEEWAY_SECONDS), claims_now |-> 0, jti |-> ""])

NoTokens ==
    [backend_nonce |-> "",
     dpop |-> NoDpopToken,
     access |-> [header |-> NoDpopToken.header,
                 claims |-> AccessClaims(NoDpopToken, test_sub, "none", "none", "", NoneUri.val,
                                         "none", 0, 0, [claims_now |-> 0, jti |-> ""]),
                 sig |-> "none"],
     id |-> IdToken(keyauth(0, thumbprint(public_key("none"))), NoneUrl.val, "none")]

\* what the enrollment reads when it builds its tokens: its clock and a jti
FlowEnv ==
    [now |-> from_secs(NOW_LEEWAY_SECONDS), claims_now |-> from_secs(NOW_LEEWAY_SECONDS),
     jti |-> "jti"]

\* ---- the steps a test replaces ----

\* the key signing the JWS of a step: test.acme_kp, but for the challenge POST
\* of should_fail_when_{dpop,oidc}_challenge_signed_by_a_different_key
signing_key_acme(f, step) == "acme_kp"

signing_key(f, step) ==
    IF \/ f = "dpop_challenge_signed_by_a_different_key" /\ step = "verify_dpop_challenge"
       \/ f = "oidc_challenge_signed_by_a_different_key" /\ step = "verify_oidc_challenge"
    THEN "other_kp"
    ELSE "acme_kp"

\* EnrollmentFlow::new_order: the ClientId the order is created for
new_order_sub(f) ==
    IF f = "access_token_client_id_mismatches"
    THEN rand_client_id(test_sub.device)
    ELSE test_sub

\* EnrollmentFlow::extract_challenges handing the two challenges on inverted
extract_challenges_inverted(f, c) == [dpop |-> c.oidc, oidc |-> c.dpop]

\* EnrollmentFlow::extract_challenges: the (dpop, oidc) pair handed to the
\* rest of the flow
extract_challenges(f, c) ==
    IF f = "challenges_inverted" THEN [dpop |-> c.oidc, oidc |-> c.dpop] ELSE c

\* the wire-dpop-01 challenge the tokens are made for: should_fail_when_
\* challenges_inverted undoes its inversion for them
real_chall(f, handed) ==
    IF f = "challenges_inverted" THEN handed.oidc ELSE handed.dpop

\* EnrollmentFlow::create_dpop_token
create_dpop_token(f, handed, target, nonce, env) ==
    LET chall == real_chall(f, handed)
        audience == IF f = "invalid_dpop_audience"
                    THEN Url("unknown.com", 0)
                    ELSE Url("chall", chall.url)
    IN  generate_dpop_token(Dpop("POST", target, chall.token, "alice_wire", "wire"),
                            test_sub, nonce, audience, from_secs(3600), "EdDSA", "acme_kp", env)

ForgedFlows ==
    {"access_token_iss_mismatches_target", "access_token_device_id_mismatches_target",
     "client_dpop_token_has_wrong_kid"}

\* EnrollmentFlow::get_access_token: wire-server's access token for the
\* client's DPoP token, or the tokens a test forges with the backend key
get_access_token(f, handed, target, dpop_token, nonce, env) ==
    LET chall == real_chall(f, handed)
        client_id == IF f = "access_token_device_id_mismatches_target"
                     THEN [test_sub EXCEPT !.device = 42]
                     ELSE test_sub
        htu == IF f = "access_token_iss_mismatches_target"
               THEN Htu("unknown.io", 0)
               ELSE target
        keypair == IF f = "client_dpop_token_has_wrong_kid" THEN "client_kp" ELSE "acme_kp"
        client_dpop_token ==
            IF f \in ForgedFlows
            THEN generate_dpop_token(Dpop("POST", htu, chall.token, "alice_wire", "wire"),
                                     client_id, nonce, Url("chall", chall.url),
                                     from_secs(3600), "EdDSA", keypair, env)
            ELSE dpop_token
    IN  generate_access_token(client_dpop_token, client_id, "alice_wire", "wire", nonce, htu,
                              "POST", 360, "backend_kp", 5, from_secs(360), env)

\* EnrollmentFlow::fetch_id_token: should_fail_when_invalid_keyauth asks the
\* identity provider for a token over a random keyauth
fetch_id_token(f, oidc_chall, keyauth_value) ==
    IdToken(IF f = "invalid_keyauth"
            THEN keyauth(0, thumbprint(public_key("none")))
            ELSE keyauth_value,
            Url("chall", oidc_chall.url), "alice_wire")

\* ---- the ACME server's verification of the two proofs ----

\* the JWS of a request verifies under the key of the account named by its kid
JwsKeyOk(s, req) == req.kid.some => public_key(req.kp) = s.account_jwk

\* the access token POSTed to a wire-dpop-01 challenge, without the cnf.kid check
DpopChallengeOk_no_cnf(s, chall, access) ==
    LET proof == access.claims.custom.proof
        v_access == [client_id |-> s.client, backend_nonce |-> NoneStr, leeway |-> 360,
                     issuer |-> Some(s.target)]
        v_proof == [client_id |-> s.client, backend_nonce |-> access.claims.nonce,
                    leeway |-> 360, issuer |-> NoneUri]
    IN  /\ verify_token(access.claims, VerificationOptions(v_access), FlowEnv.claims_now).ok
        /\ verify_token(proof.claims, VerificationOptions(v_proof), FlowEnv.claims_now).ok
        /\ access.claims.custom.client_id = proof.claims.subject.val
        /\ proof.claims.custom.htu = access.claims.issuer.val
        /\ access.claims.custom.chal = chall.token
        /\ proof.claims.custom.challenge = chall.token
        /\ proof.claims.audiences.some
        /\ proof.claims.audiences.val = Url("chall", chall.url)

\* the access token POSTed to a wire-dpop-01 challenge
DpopChallengeOk(s, chall, access) ==
    LET proof == access.claims.custom.proof
        v_access == [client_id |-> s.client, backend_nonce |-> NoneStr, leeway |-> 360,
                     issuer |-> Some(s.target)]
        v_proof == [client_id |-> s.client, backend_nonce |-> access.claims.nonce,
                    leeway |-> 360, issuer |-> NoneUri]
    IN  /\ verify_token(access.claims, VerificationOptions(v_access), FlowEnv.claims_now).ok
        /\ verify_token(proof.claims, VerificationOptions(v_proof), FlowEnv.claims_now).ok
        /\ access.claims.custom.client_id = proof.claims.subject.val
        /\ proof.claims.custom.htu = access.claims.issuer.val
        /\ access.claims.custom.cnf_kid = thumbprint(s.account_jwk)
        /\ proof.header.jwk = public_key(proof.sig)
        /\ access.claims.custom.chal = chall.token
        /\ proof.claims.custom.challenge = chall.token
        /\ proof.claims.audiences.some
        /\ proof.claims.audiences.val = Url("chall", chall.url)

\* the id-token POSTed to a wire-oidc-01 challenge, whatever its keyauth
OidcChallengeOk_any_keyauth(s, chall, id_token) ==
    id_token.acme_aud = Url("chall", chall.url)

\* the id-token POSTed to a wire-oidc-01 challenge
OidcChallengeOk(s, chall, id_token) ==
    /\ id_token.keyauth = keyauth(chall.token, thumbprint(s.account_jwk))
    /\ id_token.acme_aud = Url("chall", chall.url)

\* the challenge is verified as its type demands, whatever is POSTed to it
ProofOk(s, chall, payload, held) ==
    CASE chall.typ = "wire-dpop-01" ->
            payload = "access_token" /\ DpopChallengeOk(s, chall, held.access)
      [] chall.typ = "wire-oidc-01" ->
            payload = "id_token" /\ OidcChallengeOk(s, chall, held.id)
      [] OTHER -> FALSE

\* ---- the ACME server's replay-nonce pool ----

NonceOk(s, n) == n \in s.issued /\ n \notin s.used

\* the server consumes the request's nonce and issues the Replay-Nonce of its response
Accept(s, n) ==
    [s EXCEPT !.used = @ \cup {n}, !.issued = @ \cup {s.next}, !.next = @ + 1]

\* ---- the steps a test replaces ----

\* EnrollmentFlow::get_acme_nonce: the nonce the step hands on, the one fetched
\* from the server unless the test replaces the step
get_acme_nonce(f, fetched) ==
    IF f = "no_replay_nonce_requested" THEN UnknownNonce ELSE fetched

\* the step of should_fail_when_replay_nonce_reused keeping the response's nonce
new_order_nonce_fresh(f, presented, replay) == replay

\* EnrollmentFlow::new_order: the nonce the step hands on to new_authorization
new_order_nonce(f, presented, replay) ==
    IF f = "replay_nonce_reused" THEN presented ELSE replay

\* ---- acme/src/authz.rs ----

\* new_authz_request presenting the nonce before the supplied one
new_authz_request_stale_nonce(url, acct, alg, kp, nonce) ==
    IF ~acct.acct_url.some THEN Err("ImplementationError")
    ELSE Ok([alg |-> alg, nonce |-> nonce - 1, url |-> url, kid |-> acct.acct_url,
             payload |-> None, kp |-> kp])

\* new_authz_request leaving the supplied nonce out of the header
new_authz_request_no_nonce(url, acct, alg, kp, nonce) ==
    IF ~acct.acct_url.some THEN Err("ImplementationError")
    ELSE Ok([alg |-> alg, nonce |-> UnknownNonce, url |-> url, kid |-> acct.acct_url,
             payload |-> None, kp |-> kp])

\* new_authz_request embedding the jwk instead of naming the account
new_authz_request_jwk(url, acct, alg, kp, nonce) ==
    IF ~acct.acct_url.some THEN Err("ImplementationError")
    ELSE Ok([alg |-> alg, nonce |-> nonce, url |-> url, kid |-> None,
             payload |-> None, kp |-> kp])

new_authz_request(url, acct, alg, kp, nonce) ==
    IF ~acct.acct_url.some THEN Err("ImplementationError")
    ELSE Ok([alg |-> alg, nonce |-> nonce, url |-> url, kid |-> acct.acct_url,
             payload |-> None, kp |-> kp])

\* AcmeJws::new for the other endpoints: kid is None when the jwk is embedded
AcmeJws(alg, nonce, url, kid, payload, kp) ==
    [alg |-> alg, nonce |-> nonce, url |-> url, kid |-> kid, payload |-> payload, kp |-> kp]

\* ---- the record of one exchange with the ACME server ----

Exchange(step, kind, req, accepted, replay, body) ==
    [step |-> step, kind |-> kind, nonce |-> req.nonce, url |-> req.url, kid |-> req.kid,
     kp |-> req.kp, payload |-> req.payload, accepted |-> accepted, replay |-> replay,
     body |-> body]

Plain(url) == AcmeJws("none", UnknownNonce, url, None, None, "none")

\* a failure after which the step is run again
Fail_retry(step, e) ==
    /\ pc' = step
    /\ UNCHANGED <<result, failedAt>>

Fail(step, e) ==
    /\ pc' = "failed"
    /\ result' = e
    /\ failedAt' = step

Goto(step) ==
    /\ pc' = step
    /\ UNCHANGED <<result, failedAt>>

Running == result = "none"

IdleAuthz ==
    /\ resp = [status |-> "absent", expires |-> None, challenges |-> <<>>,
               has_challenges |-> FALSE, identifier |-> "wireapp-id"]
    /\ now = 0
    /\ op = "idle"
    /\ out = Err("none")

Init ==
    /\ IdleAuthz
    /\ IdleJwt
    /\ flow \in Flows
    /\ pc = "get_directory"
    /\ result = "none"
    /\ failedAt = "none"
    /\ previous_nonce = UnknownNonce
    /\ account = [acct_url |-> None]
    /\ authz = NoAuthz
    /\ challs = NoChalls
    /\ lastOrder = "none"
    /\ polls = 0
    /\ nonceFetches = 0
    /\ log = <<>>
    /\ srv = [issued |-> {}, used |-> {}, next |-> 1,
              order |-> "none", dpop |-> "none", oidc |-> "none",
              account_jwk |-> public_key("none"), client |-> test_sub,
              target |-> NoneUri.val]
    /\ tokens = NoTokens

\* 1. get_directory
GetDirectory ==
    /\ Running /\ pc = "get_directory"
    /\ \E up \in BOOLEAN :
          /\ log' = Append(log, Exchange("get_directory", "GET", Plain(Url("directory", 0)),
                                         up, None, "none"))
          /\ IF up THEN Goto("get_acme_nonce") ELSE Fail("get_directory", StepError("get_directory"))
    /\ UNCHANGED <<flow, tokens, previous_nonce, account, authz, challs, lastOrder, polls,
                   nonceFetches, srv>>
    /\ UNCHANGED <<authzVars, jwtVars>>

\* 2. get_acme_nonce: HEAD /new-nonce, fetched once more when the first fetch fails;
\*    the step of should_fail_when_no_replay_nonce_requested asks the server nothing
GetAcmeNonce ==
    /\ Running /\ pc = "get_acme_nonce"
    /\ IF get_acme_nonce(flow, srv.next) # srv.next
       THEN /\ previous_nonce' = get_acme_nonce(flow, srv.next)
            /\ Goto("new_account")
            /\ UNCHANGED <<srv, log, nonceFetches>>
       ELSE \E up \in BOOLEAN :
            /\ nonceFetches' = nonceFetches + 1
            /\ log' = Append(log, Exchange("get_acme_nonce", "HEAD", Plain(Url("new-nonce", 0)),
                                           up, IF up THEN Some(srv.next) ELSE None, "none"))
            /\ IF up
               THEN /\ srv' = [srv EXCEPT !.issued = @ \cup {srv.next}, !.next = @ + 1]
                    /\ previous_nonce' = get_acme_nonce(flow, srv.next)
                    /\ Goto("new_account")
               ELSE /\ UNCHANGED <<srv, previous_nonce>>
                    /\ IF nonceFetches = 0
                       THEN Goto("get_acme_nonce")
                       ELSE Fail("get_acme_nonce", StepError("get_acme_nonce"))
    /\ UNCHANGED <<flow, tokens, account, authz, challs, lastOrder, polls>>
    /\ UNCHANGED <<authzVars, jwtVars>>

\* 3. new_account: the only JWS with an embedded jwk; the response's Location is
\*    the account URL
NewAccount ==
    /\ Running /\ pc = "new_account"
    /\ \E up \in BOOLEAN :
       LET req == AcmeJws("EdDSA", previous_nonce, Url("new-account", 0), None, Some("account"),
                          signing_key(flow, "new_account"))
           acc == up /\ NonceOk(srv, req.nonce) /\ JwsKeyOk(srv, req)
       IN  /\ log' = Append(log, Exchange("new_account", "JWS", req, acc,
                                          IF acc THEN Some(srv.next) ELSE None, "none"))
           /\ IF acc
              THEN /\ srv' = [Accept(srv, req.nonce) EXCEPT !.account_jwk = public_key(req.kp)]
                   /\ account' = [acct_url |-> Some(Url("account", 1))]
                   /\ previous_nonce' = srv.next
                   /\ Goto("new_order")
              ELSE /\ UNCHANGED <<srv, account, previous_nonce>>
                   /\ Fail("new_account", StepError("new_account"))
    /\ UNCHANGED <<flow, tokens, authz, challs, lastOrder, polls, nonceFetches>>
    /\ UNCHANGED <<authzVars, jwtVars>>

\* 4. new_order: the returned order is pending
NewOrder ==
    /\ Running /\ pc = "new_order"
    /\ \E up \in BOOLEAN :
       LET req == AcmeJws("EdDSA", previous_nonce, Url("new-order", 0), account.acct_url,
                          Some("wireapp-id"), signing_key(flow, "new_order"))
           sub == new_order_sub(flow)
           acc == up /\ NonceOk(srv, req.nonce) /\ JwsKeyOk(srv, req)
       IN  /\ log' = Append(log, Exchange("new_order", "JWS", req, acc,
                                          IF acc THEN Some(srv.next) ELSE None,
                                          IF acc THEN "pending" ELSE "none"))
           /\ IF acc
              THEN /\ srv' = [Accept(srv, req.nonce) EXCEPT
                                  !.order = "pending",
                                  !.client = sub,
                                  !.target = Htu(sub.domain, sub.device)]
                   /\ lastOrder' = "pending"
                   /\ previous_nonce' = new_order_nonce(flow, req.nonce, srv.next)
                   /\ Goto("new_authz")
              ELSE /\ UNCHANGED <<srv, lastOrder, previous_nonce>>
                   /\ Fail("new_order", StepError("new_order"))
    /\ UNCHANGED <<flow, tokens, account, authz, challs, polls, nonceFetches>>
    /\ UNCHANGED <<authzVars, jwtVars>>

\* the authorization responses the server may give
AuthzResponses ==
    [status : AuthzStatus, expires : {None}, challenges : ChallengeLists,
     has_challenges : BOOLEAN, identifier : {"wireapp-id"}]

\* 5. new_authorization: new_authz_request, then new_authz_response on the body
NewAuthz ==
    /\ Running /\ pc = "new_authz"
    /\ LET built == new_authz_request(Url("authz", 1), account, "EdDSA",
                                      signing_key(flow, "new_authz"), previous_nonce) IN
       IF ~built.ok
       THEN /\ Fail("new_authz", built.err)
            /\ UNCHANGED <<log, srv, authz, previous_nonce>>
       ELSE \E up \in BOOLEAN, body \in AuthzResponses :
            LET req == built.val
                acc == up /\ NonceOk(srv, req.nonce) /\ JwsKeyOk(srv, req)
                parsed == new_authz_response(body)
            IN  /\ log' = Append(log, Exchange("new_authz", "JWS", req, acc,
                                               IF acc THEN Some(srv.next) ELSE None,
                                               IF acc THEN body.status ELSE "none"))
                /\ IF ~acc
                   THEN /\ Fail("new_authz", StepError("new_authz"))
                        /\ UNCHANGED <<srv, authz, previous_nonce>>
                   ELSE /\ srv' = Accept(srv, req.nonce)
                        /\ previous_nonce' = srv.next
                        /\ IF parsed.ok
                           THEN authz' = parsed.val /\ Goto("extract_challenges")
                           ELSE UNCHANGED authz /\ Fail("new_authz", parsed.err)
    /\ UNCHANGED <<flow, tokens, account, challs, lastOrder, polls, nonceFetches>>
    /\ UNCHANGED <<authzVars, jwtVars>>

\* 6. extract_challenges: both challenges are looked up by their type
ExtractChallenges ==
    /\ Running /\ pc = "extract_challenges"
    /\ LET d == wire_dpop_challenge(authz)
           o == wire_oidc_challenge(authz)
       IN  IF d.some /\ o.some
           THEN challs' = [dpop |-> d.val, oidc |-> o.val] /\ Goto("get_backend_nonce")
           ELSE UNCHANGED challs /\ Fail("extract_challenges", "AcmeOrderError::NoChallenge")
    /\ UNCHANGED <<flow, tokens, previous_nonce, account, authz, lastOrder, polls, nonceFetches, log, srv>>
    /\ UNCHANGED <<authzVars, jwtVars>>

\* 7. get_backend_nonce, from wire-server
GetBackendNonce ==
    /\ Running /\ pc = "get_backend_nonce"
    /\ \E up \in BOOLEAN :
          IF up
          THEN /\ tokens' = [tokens EXCEPT !.backend_nonce = "backend-nonce"]
               /\ Goto("create_dpop_token")
          ELSE /\ UNCHANGED tokens
               /\ Fail("get_backend_nonce", StepError("get_backend_nonce"))
    /\ UNCHANGED <<flow, previous_nonce, account, authz, challs, lastOrder, polls,
                   nonceFetches, log, srv>>
    /\ UNCHANGED <<authzVars, jwtVars>>

\* 8. create_dpop_token: local, no request; htu is the challenge's target
CreateDpopToken ==
    /\ Running /\ pc = "create_dpop_token"
    /\ tokens' = [tokens EXCEPT !.dpop =
                     create_dpop_token(flow, extract_challenges(flow, challs), srv.target,
                                       tokens.backend_nonce, FlowEnv)]
    /\ Goto("get_access_token")
    /\ UNCHANGED <<flow, previous_nonce, account, authz, challs, lastOrder, polls,
                   nonceFetches, log, srv>>
    /\ UNCHANGED <<authzVars, jwtVars>>

\* 9. get_access_token, from wire-server; a test that forges the access token
\*    asks wire-server nothing
GetAccessToken ==
    /\ Running /\ pc = "get_access_token"
    /\ \E up \in BOOLEAN :
       LET made == get_access_token(flow, extract_challenges(flow, challs), srv.target,
                                    tokens.dpop, tokens.backend_nonce, FlowEnv)
       IN  /\ flow \in ForgedFlows => up
           /\ IF up /\ made.ok
              THEN /\ tokens' = [tokens EXCEPT !.access = made.val]
                   /\ Goto("verify_dpop_challenge")
              ELSE /\ UNCHANGED tokens
                   /\ Fail("get_access_token", StepError("get_access_token"))
    /\ UNCHANGED <<flow, previous_nonce, account, authz, challs, lastOrder, polls,
                   nonceFetches, log, srv>>
    /\ UNCHANGED <<authzVars, jwtVars>>

ChallengeStatus == {"pending", "processing", "valid", "invalid"}

ClientImplementationErrorChall ==
    "ClientImplementationError(a challenge is not supposed to be pending at this point. It must either be 'valid' or 'processing'.)"

\* new_chall_response letting a pending challenge through
new_chall_response_pending_ok(status) ==
    CASE status \in {"valid", "processing", "pending"} -> Ok(status)
      [] status = "invalid" -> Err("AcmeChallError::Invalid")

\* the client's reading of the challenge returned by POST challenge
new_chall_response(status) ==
    CASE status = "valid" -> Ok(status)
      [] status = "processing" -> Ok(status)
      [] status = "pending" -> Err(ClientImplementationErrorChall)
      [] status = "invalid" -> Err("AcmeChallError::Invalid")

\* the server's order follows its challenges while it is pending
UpdateOrder(s) ==
    [s EXCEPT !.order =
        IF s.order # "pending" THEN s.order
        ELSE IF "invalid" \in {s.dpop, s.oidc} THEN "invalid"
        ELSE IF s.dpop = "valid" /\ s.oidc = "valid" THEN "ready"
        ELSE "pending"]

\* the statuses the server may give a challenge: a proof that does not verify
\* makes it invalid
Verdicts(ok) == IF ok THEN ChallengeStatus ELSE {"invalid"}

\* POST the proof to the challenge url; the server's verdict is the challenge's status
VerifyChallenge(step, chall, payload, next) ==
    /\ Running /\ pc = step
    /\ \E up \in BOOLEAN, verdict \in ChallengeStatus :
       LET req == AcmeJws("EdDSA", previous_nonce, Url("chall", chall.url), account.acct_url,
                          Some(payload), signing_key(flow, step))
           acc == up /\ NonceOk(srv, req.nonce) /\ JwsKeyOk(srv, req)
           which == IF chall.typ = "wire-dpop-01" THEN "dpop" ELSE "oidc"
           read == new_chall_response(verdict)
       IN  /\ verdict \in Verdicts(ProofOk(srv, chall, payload, tokens))
           /\ log' = Append(log, Exchange(step, "JWS", req, acc,
                                          IF acc THEN Some(srv.next) ELSE None,
                                          IF acc THEN verdict ELSE "none"))
           /\ IF ~acc
              THEN /\ Fail(step, StepError(step))
                   /\ UNCHANGED <<srv, previous_nonce>>
              ELSE /\ srv' = UpdateOrder([Accept(srv, req.nonce) EXCEPT ![which] = verdict])
                   /\ previous_nonce' = srv.next
                   /\ IF read.ok THEN Goto(next) ELSE Fail(step, read.err)
    /\ UNCHANGED <<flow, tokens, account, authz, challs, lastOrder, polls, nonceFetches>>
    /\ UNCHANGED <<authzVars, jwtVars>>

\* 10. verify_dpop_challenge: the access token goes to the wire-dpop-01 challenge
VerifyDpopChallenge ==
    VerifyChallenge("verify_dpop_challenge", extract_challenges(flow, challs).dpop,
                    "access_token", "fetch_id_token")

\* 11. fetch_oidc_provider_config and fetch_id_token, over the keyauth of the
\*     wire-oidc-01 challenge
FetchIdToken ==
    /\ Running /\ pc = "fetch_id_token"
    /\ \E up \in BOOLEAN :
       LET oidc_chall == extract_challenges(flow, challs).oidc
           value == keyauth(oidc_chall.token, thumbprint(public_key("acme_kp")))
       IN  IF up
           THEN /\ tokens' = [tokens EXCEPT !.id = fetch_id_token(flow, oidc_chall, value)]
                /\ Goto("verify_oidc_challenge")
           ELSE /\ UNCHANGED tokens
                /\ Fail("fetch_id_token", StepError("fetch_id_token"))
    /\ UNCHANGED <<flow, previous_nonce, account, authz, challs, lastOrder, polls,
                   nonceFetches, log, srv>>
    /\ UNCHANGED <<authzVars, jwtVars>>

\* 12. verify_oidc_challenge: the id-token goes to the wire-oidc-01 challenge
VerifyOidcChallenge ==
    VerifyChallenge("verify_oidc_challenge", extract_challenges(flow, challs).oidc,
                    "id_token", "check_order")

ClientImplementationErrorOrder ==
    "ClientImplementationError(an order is not supposed to be in this state at this point.)"

\* check_order_response finalizing an order that is still pending
check_order_response_eager(status, polled) ==
    CASE status \in {"ready", "pending"} -> Ok("finalize")
      [] status = "invalid" -> Err("AcmeOrderError::Invalid")
      [] OTHER -> Err(ClientImplementationErrorOrder)

\* what the client does with the order polled before finalize
check_order_response(status, polled) ==
    CASE status = "ready" -> Ok("finalize")
      [] status = "pending" ->
            IF polled < MaxPolls THEN Ok("check_order") ELSE Err("AcmeChallError::Processing")
      [] status = "invalid" -> Err("AcmeOrderError::Invalid")
      [] OTHER -> Err(ClientImplementationErrorOrder)

\* finalize_response fetching the certificate of an order still processing
finalize_response_eager(status, polled) ==
    CASE status \in {"valid", "processing"} -> Ok("get_certificate")
      [] status = "invalid" -> Err("AcmeOrderError::Invalid")
      [] OTHER -> Err(ClientImplementationErrorOrder)

\* finalize_response giving up on an order still processing without an error
finalize_response_silent(status, polled) ==
    CASE status = "valid" -> Ok("get_certificate")
      [] status = "processing" ->
            IF polled < MaxPolls THEN Ok("poll_order") ELSE Ok("waiting")
      [] status = "invalid" -> Err("AcmeOrderError::Invalid")
      [] OTHER -> Err(ClientImplementationErrorOrder)

\* what the client does with the order returned by finalize or polled after it
finalize_response(status, polled) ==
    CASE status = "valid" -> Ok("get_certificate")
      [] status = "processing" ->
            IF polled < MaxPolls THEN Ok("poll_order") ELSE Err(ClientImplementationErrorOrder)
      [] status = "invalid" -> Err("AcmeOrderError::Invalid")
      [] OTHER -> Err(ClientImplementationErrorOrder)

\* POST-as-GET of the order url
PollOrderStep(step) ==
    /\ Running /\ pc = step
    /\ \E up \in BOOLEAN :
       LET req == AcmeJws("EdDSA", previous_nonce, Url("order", 1), account.acct_url, None,
                          signing_key(flow, step))
           acc == up /\ NonceOk(srv, req.nonce) /\ JwsKeyOk(srv, req)
           todo == IF step = "check_order"
                   THEN check_order_response(srv.order, polls + 1)
                   ELSE finalize_response(srv.order, polls + 1)
       IN  /\ log' = Append(log, Exchange(step, "JWS", req, acc,
                                          IF acc THEN Some(srv.next) ELSE None,
                                          IF acc THEN srv.order ELSE "none"))
           /\ IF ~acc
              THEN /\ Fail(step, StepError(step))
                   /\ UNCHANGED <<srv, previous_nonce, lastOrder, polls>>
              ELSE /\ srv' = Accept(srv, req.nonce)
                   /\ previous_nonce' = srv.next
                   /\ lastOrder' = srv.order
                   /\ IF todo.ok
                      THEN /\ Goto(todo.val)
                           /\ polls' = IF todo.val = step THEN polls + 1 ELSE 0
                      ELSE /\ Fail(step, todo.err)
                           /\ polls' = polls + 1
    /\ UNCHANGED <<flow, tokens, account, authz, challs, nonceFetches>>
    /\ UNCHANGED <<authzVars, jwtVars>>

\* 13a. the order is polled until it is ready
CheckOrder == PollOrderStep("check_order")

\* 13b. finalize submits the CSR
Finalize ==
    /\ Running /\ pc = "finalize"
    /\ \E up \in BOOLEAN, issued \in {"processing", "valid"} :
       LET req == AcmeJws("EdDSA", previous_nonce, Url("finalize", 1), account.acct_url,
                          Some("csr"), signing_key(flow, "finalize"))
           acc == up /\ NonceOk(srv, req.nonce) /\ JwsKeyOk(srv, req) /\ srv.order = "ready"
           todo == finalize_response(issued, 0)
       IN  /\ log' = Append(log, Exchange("finalize", "JWS", req, acc,
                                          IF acc THEN Some(srv.next) ELSE None,
                                          IF acc THEN issued ELSE "none"))
           /\ IF ~acc
              THEN /\ Fail("finalize", StepError("finalize"))
                   /\ UNCHANGED <<srv, previous_nonce, lastOrder>>
              ELSE /\ srv' = [Accept(srv, req.nonce) EXCEPT !.order = issued]
                   /\ previous_nonce' = srv.next
                   /\ lastOrder' = issued
                   /\ Goto(todo.val)
    /\ UNCHANGED <<flow, tokens, account, authz, challs, polls, nonceFetches>>
    /\ UNCHANGED <<authzVars, jwtVars>>

\* 13c. the order is polled until it is valid
PollOrder == PollOrderStep("poll_order")

\* 14. get_certificate
GetCertificate ==
    /\ Running /\ pc = "get_certificate"
    /\ \E up \in BOOLEAN :
       LET req == AcmeJws("EdDSA", previous_nonce, Url("certificate", 1), account.acct_url,
                          None, signing_key(flow, "get_certificate"))
           acc == up /\ NonceOk(srv, req.nonce) /\ JwsKeyOk(srv, req) /\ srv.order = "valid"
       IN  /\ log' = Append(log, Exchange("get_certificate", "JWS", req, acc,
                                          IF acc THEN Some(srv.next) ELSE None, "none"))
           /\ IF ~acc
              THEN /\ Fail("get_certificate", StepError("get_certificate"))
                   /\ UNCHANGED <<srv, previous_nonce>>
              ELSE /\ srv' = Accept(srv, req.nonce)
                   /\ previous_nonce' = srv.next
                   /\ pc' = "done"
                   /\ result' = "Ok"
                   /\ UNCHANGED failedAt
    /\ UNCHANGED <<flow, tokens, account, authz, challs, lastOrder, polls, nonceFetches>>
    /\ UNCHANGED <<authzVars, jwtVars>>

\* the server finishes verifying a challenge it answered `processing`
ServerResolve ==
    /\ \E which \in {"dpop", "oidc"}, verdict \in {"valid", "invalid"} :
          /\ srv[which] = "processing"
          /\ srv' = UpdateOrder([srv EXCEPT ![which] = verdict])
    /\ UNCHANGED <<flow, tokens, pc, result, failedAt, previous_nonce, account, authz, challs,
                   lastOrder, polls, nonceFetches, log>>
    /\ UNCHANGED <<authzVars, jwtVars>>

\* the server issues the certificate of a processing order, or fails to
ServerIssue ==
    /\ srv.order = "processing"
    /\ \E verdict \in {"valid", "invalid"} : srv' = [srv EXCEPT !.order = verdict]
    /\ UNCHANGED <<flow, tokens, pc, result, failedAt, previous_nonce, account, authz, challs,
                   lastOrder, polls, nonceFetches, log>>
    /\ UNCHANGED <<authzVars, jwtVars>>

Next ==
    \/ GetDirectory
    \/ GetAcmeNonce
    \/ NewAccount
    \/ NewOrder
    \/ NewAuthz
    \/ ExtractChallenges
    \/ GetBackendNonce
    \/ CreateDpopToken
    \/ GetAccessToken
    \/ VerifyDpopChallenge
    \/ FetchIdToken
    \/ VerifyOidcChallenge
    \/ CheckOrder
    \/ Finalize
    \/ PollOrder
    \/ GetCertificate
    \/ ServerResolve
    \/ ServerIssue

Spec == Init /\ [][Next]_vars

\* the steps the client takes: each issues its request and handles the answer
ClientStep ==
    \/ GetDirectory
    \/ GetAcmeNonce
    \/ NewAccount
    \/ NewOrder
    \/ NewAuthz
    \/ ExtractChallenges
    \/ GetBackendNonce
    \/ CreateDpopToken
    \/ GetAccessToken
    \/ VerifyDpopChallenge
    \/ FetchIdToken
    \/ VerifyOidcChallenge
    \/ CheckOrder
    \/ Finalize
    \/ PollOrder
    \/ GetCertificate

\* The enrollment under fair scheduling: the client's pipeline is one
\* sequential task, so the step it stands at is eventually run and answered,
\* by an acceptance or a refusal; nothing is assumed of when the server
\* resolves a challenge or an order it left processing.
SpecLive == Init /\ [][Next]_vars /\ WF_vars(ClientStep)

----------------------------------------------------------------------------
(* Specification of the authorization request: Init draws the arguments of *)
(* new_authz_request, the action applies it.                               *)

\* the accounts handed to new_authz_request: before and after new_account
\* established the account URL
Accounts ==
    {[acct_url |-> NoneUrl], [acct_url |-> Some(Url("account", 1))],
     [acct_url |-> Some(Url("account", 2))]}

AuthzRequestArgs ==
    [url : {Url("authz", 1), Url("authz", 2)},
     account : Accounts,
     alg : {"EdDSA", "ES256", "ES384"},
     kp : {"acme_kp", "other_kp"},
     previous_nonce : 0..MaxNonce]

InitRequest ==
    /\ args \in AuthzRequestArgs
    /\ claims = <<>>
    /\ jop = "init"
    /\ res = <<>>
    /\ IdleAuthz
    /\ IdleFlow

NewAuthzRequest ==
    /\ jop = "init"
    /\ jop' = "new_authz_request"
    /\ res' = new_authz_request(args.url, args.account, args.alg, args.kp, args.previous_nonce)
    /\ UNCHANGED <<args, claims>>
    /\ UNCHANGED <<authzVars, flowVars>>

NextRequest == NewAuthzRequest

SpecRequest == InitRequest /\ [][NextRequest]_vars

----------------------------------------------------------------------------
(* Specification of the DPoP claims: Init draws the arguments and the      *)
(* clock reads, one action applies Dpop::into_jwt_claims, the next hands   *)
(* the claims to verify_jwt.                                               *)

\* what one call reads: the epoch clock, at least NOW_LEEWAY_SECONDS past
\* 1970, read twice, and a fresh jti
Envs ==
    {[now |-> from_secs(NOW_LEEWAY_SECONDS) + t,
      claims_now |-> from_secs(NOW_LEEWAY_SECONDS) + t + d,
      jti |-> "jti"] : t \in 0..MaxTime, d \in (0 - MaxClockStep)..MaxClockStep}

DpopArgs ==
    [self : {Dpop("POST", Htu(test_sub.domain, test_sub.device), 1, "alice_wire", "wire")},
     nonce : {"backend-nonce"},
     client_id : ClientIds,
     expiry : 0..MaxExpiry,
     audience : {Url("chall", 1), Url("unknown", 0)},
     env : Envs]

InitDpop ==
    /\ args \in DpopArgs
    /\ claims = <<>>
    /\ jop = "init"
    /\ res = <<>>
    /\ IdleAuthz
    /\ IdleFlow

IntoJwtClaims ==
    /\ jop = "init"
    /\ jop' = "into_jwt_claims"
    /\ claims' = into_jwt_claims(args.self, args.nonce, args.client_id, args.expiry,
                                 args.audience, args.env)
    /\ UNCHANGED <<args, res>>
    /\ UNCHANGED <<authzVars, flowVars>>

\* the largest `exp` a generated token carries, in seconds
MaxGeneratedExp == NOW_LEEWAY_SECONDS + MaxTime + MaxClockStep + MaxExpiry

\* the claims just built, signed by the client's key and handed to verify_jwt
\* by a verifier expecting the same ClientId and backend nonce, reading the
\* clock at the instant the claims were dated or up to MaxClockStep later
VerifyGenerated ==
    /\ jop = "into_jwt_claims"
    /\ jop' = "verify_generated"
    /\ \E leeway \in {0, MaxLeeway}, step \in 0..MaxClockStep,
          max_expiration \in {NOW_LEEWAY_SECONDS, MaxGeneratedExp} :
          LET token == [header |-> [typ |-> "dpop+jwt", alg |-> "EdDSA",
                                    jwk |-> public_key("client_kp")],
                        claims |-> [claims EXCEPT !.custom = serialize_dpop(claims.custom)],
                        sig |-> "client_kp"]
              v == [client_id |-> args.client_id, backend_nonce |-> Some(args.nonce),
                    leeway |-> leeway, issuer |-> NoneUri]
              clock == args.env.claims_now + step
          IN  res' = [verify |-> v, clock |-> clock, max_expiration |-> max_expiration,
                      out |-> verify_jwt(token, public_key("client_kp"), max_expiration,
                                         v, clock)]
    /\ UNCHANGED <<args, claims>>
    /\ UNCHANGED <<authzVars, flowVars>>

NextDpop == IntoJwtClaims \/ VerifyGenerated

SpecDpop == InitDpop /\ [][NextDpop]_vars

----------------------------------------------------------------------------
(* Specification of the token verification: Init draws one call of         *)
(* verify_jwt, verify_jwt_header or jwt_error_mapping, the action applies  *)
(* it.                                                                     *)

\* the time claims of a token: absent, or whole seconds
JwtTimes == {None} \cup {Some(from_secs(s)) : s \in 0..MaxJwtTime}

\* the key the verifier holds
VerifyKey == public_key("client_kp")

\* what the verifier expects: a client, a backend nonce or none, a leeway, and
\* no issuer (a DPoP token names none)
Verifys ==
    [client_id : {test_sub},
     backend_nonce : {NoneStr, Some("backend-nonce")},
     leeway : {0, MaxLeeway},
     issuer : {NoneUri}]

\* the tokens signed by the client's key: each registered claim absent or
\* present, right or wrong
SignedTokens ==
    {[header |-> [typ |-> "dpop+jwt", alg |-> "EdDSA", jwk |-> public_key(kp)],
      claims |-> [issued_at |-> iat, expires_at |-> exp, invalid_before |-> nbf,
                  issuer |-> iss, subject |-> sub, audiences |-> NoneUrl,
                  jwt_id |-> jti, nonce |-> nonce, custom |-> DpopJson],
      sig |-> kp] :
        kp \in {"client_kp"},
        iat \in JwtTimes, exp \in JwtTimes, nbf \in JwtTimes,
        iss \in {NoneUri},
        sub \in {NoneUri, Some(to_uri(test_sub)), Some(to_uri(rand_client_id(test_sub.device)))},
        jti \in {NoneStr, Some("jti")},
        nonce \in {NoneStr, Some("backend-nonce"), Some("other-nonce")}}

\* tokens signed by another key: those carrying every registered claim
ForgedTokens ==
    {[t EXCEPT !.sig = "other_kp"] :
        t \in {u \in SignedTokens : /\ u.claims.jwt_id.some /\ u.claims.subject.some
                                     /\ u.claims.nonce.some}}

\* tokens lacking custom claims of a Dpop: otherwise good, or with a wrong
\* subject, or without `jti`, or signed by another key
LackingTokens ==
    {[t EXCEPT !.claims.custom = present] :
        t \in {u \in SignedTokens \cup ForgedTokens :
                  /\ u.claims.issued_at = Some(0)
                  /\ u.claims.invalid_before = Some(0)
                  /\ u.claims.expires_at = Some(from_secs(1))
                  /\ u.claims.nonce = Some("backend-nonce")
                  /\ u.claims.subject.some},
        present \in (SUBSET DpopJson) \ {DpopJson}}

\* the tokens handed to verify_jwt
JwtTokens == SignedTokens \cup ForgedTokens \cup LackingTokens

\* a token every check accepts at the earliest clock
GoodToken ==
    [header |-> [typ |-> "dpop+jwt", alg |-> "EdDSA", jwk |-> VerifyKey],
     claims |-> [issued_at |-> Some(0), expires_at |-> Some(from_secs(1)),
                 invalid_before |-> Some(0),
                 issuer |-> NoneUri,
                 subject |-> Some(to_uri(test_sub)), audiences |-> NoneUrl,
                 jwt_id |-> Some("jti"), nonce |-> Some("backend-nonce"), custom |-> DpopJson],
     sig |-> "client_kp"]

\* the clock the library reads, in ticks: never earlier than the leeway, and
\* early enough for a token to name a later time
Clocks ==
    {from_secs(MaxLeeway), from_secs(MaxLeeway) + 1, from_secs(MaxJwtTime - 1)}

VerifyArgs ==
    {[fn |-> "verify_jwt", token |-> t, key |-> VerifyKey, max_expiration |-> m,
      verify |-> v, clock |-> c, reason |-> Exact("")] :
        t \in JwtTokens, m \in {1, MaxJwtTime}, v \in Verifys, c \in Clocks}

\* the header algorithms of RFC 7518 and RFC 8037 a token may name
Algorithms == {"EdDSA", "ES256", "ES384", "ES512", "RS256", "PS256", "HS256", "none"}

HeaderArgs ==
    {[fn |-> "verify_jwt_header", token |-> [GoodToken EXCEPT !.header.alg = a],
      key |-> VerifyKey, max_expiration |-> 1, verify |-> CHOOSE v \in Verifys : TRUE,
      clock |-> from_secs(MaxLeeway), reason |-> Exact("")] : a \in Algorithms}

\* the reasons the mapping names, each exact or the prefix of a longer text
RecognisedReasons ==
    {"Required subject missing", "Required nonce missing", "Required subject mismatch",
     "Required nonce mismatch", "Required issuer mismatch", "Clock drift detected",
     "Token not valid yet", "Token has expired", "Invalid JWK in DPoP token",
     "Required issuer missing", "missing field chal", "missing field htm",
     "missing field htu", "missing field cnf", "missing field proof",
     "missing field api_version", "missing field client_id", "missing field scope",
     "missing field handle"}

Reasons ==
    {Reason(head, tail) :
        head \in RecognisedReasons \cup {"Invalid signature", "missing field team", ""},
        tail \in {"", " at line 1 column 2", " at line 1 column 9"}}

MappingArgs ==
    {[fn |-> "jwt_error_mapping", token |-> GoodToken, key |-> VerifyKey,
      max_expiration |-> 1, verify |-> CHOOSE v \in Verifys : TRUE,
      clock |-> from_secs(MaxLeeway), reason |-> r] : r \in Reasons}

InitVerify ==
    /\ args \in VerifyArgs \cup HeaderArgs \cup MappingArgs
    /\ claims = <<>>
    /\ jop = "init"
    /\ res = <<>>
    /\ IdleAuthz
    /\ IdleFlow

VerifyJwt ==
    /\ jop = "init"
    /\ args.fn = "verify_jwt"
    /\ jop' = "verify_jwt"
    /\ res' = verify_jwt(args.token, args.key, args.max_expiration, args.verify, args.clock)
    /\ UNCHANGED <<args, claims>>
    /\ UNCHANGED <<authzVars, flowVars>>

VerifyJwtHeader ==
    /\ jop = "init"
    /\ args.fn = "verify_jwt_header"
    /\ jop' = "verify_jwt_header"
    /\ res' = verify_jwt_header(args.token.header)
    /\ UNCHANGED <<args, claims>>
    /\ UNCHANGED <<authzVars, flowVars>>

JwtErrorMapping ==
    /\ jop = "init"
    /\ args.fn = "jwt_error_mapping"
    /\ jop' = "jwt_error_mapping"
    /\ res' = jwt_error_mapping(args.reason)
    /\ UNCHANGED <<args, claims>>
    /\ UNCHANGED <<authzVars, flowVars>>

NextVerify ==
    \/ VerifyJwt
    \/ VerifyJwtHeader
    \/ JwtErrorMapping

SpecVerify == InitVerify /\ [][NextVerify]_vars

----------------------------------------------------------------------------
(* Claims about the authorization handling, checked under SpecAuthz *)

\* C5: new_authz_response returns the parsed authorization if and only if the
\* response's status is `pending`; for each of the other statuses (invalid,
\* valid, revoked, deactivated, expired) it returns an error and no
\* authorization.
C5_PendingOnly ==
    op = "new_authz_response" =>
        /\ out.ok => (resp.status = "pending" /\ out.val = AuthzOf(resp))
        /\ (from_value(resp).ok /\ resp.status = "pending") => out.ok
        /\ resp.status \in AuthzStatus \ {"pending"} => (~out.ok /\ out.val = <<>>)

C5_Witness ==
    /\ op = "new_authz_response"
    /\ resp.status = "pending"
    /\ out.ok
    /\ Len(out.val.challenges) = MaxChallenges

\* the error the specification gives for each non-pending status
C6_Expected(s) ==
    CASE s = "invalid" -> "AcmeAuthzError::Invalid"
      [] s = "revoked" -> "AcmeAuthzError::Revoked"
      [] s = "deactivated" -> "AcmeAuthzError::Deactivated"
      [] s = "expired" -> "AcmeAuthzError::Expired"
      [] s = "valid" -> ClientImplementationErrorAuthz

\* C6: new_authz_response maps invalid, revoked, deactivated and expired to the
\* AcmeAuthzError of the same name and valid to ClientImplementationError, and
\* no two statuses share an error.
C6_ErrorPerStatus ==
    (op = "new_authz_response" /\ from_value(resp).ok /\ resp.status # "pending") =>
        /\ ~out.ok
        /\ out.err = C6_Expected(resp.status)
        /\ \A s \in AuthzStatus \ {"pending", resp.status} :
              new_authz_response([resp EXCEPT !.status = s]).err # out.err

C6_Witness ==
    /\ op = "new_authz_response"
    /\ from_value(resp).ok
    /\ resp.status = "valid"
    /\ out.err = ClientImplementationErrorAuthz

\* C7 as stated: verify() returns Expired when `expires` is earlier than the
\* current time and Ok when `expires` is later than the current time.
C7_Original ==
    (op = "verify" /\ resp.expires.some) =>
        /\ resp.expires.val < now => out = Err("AcmeAuthzError::Expired")
        /\ resp.expires.val > now => out.ok

\* C7 amended: verify() returns Expired exactly when the whole second of
\* `expires` is earlier than the whole second of the current time (so an
\* `expires` earlier than now within the same second is not expired), and Ok
\* when `expires` is later than the current time.
C7_WholeSeconds ==
    (op = "verify" /\ resp.expires.some) =>
        /\ (out = Err("AcmeAuthzError::Expired")) <=>
               (resp.expires.val \div TicksPerSecond < now \div TicksPerSecond)
        /\ resp.expires.val > now => out = Ok(<<>>)
        /\ out.ok \/ out = Err("AcmeAuthzError::Expired")

C7_Witness ==
    /\ op = "verify"
    /\ resp.expires.some
    /\ resp.expires.val + TicksPerSecond <= now
    /\ out = Err("AcmeAuthzError::Expired")

\* the authorizations that differ from the one verified in status, identifier
\* or challenges only
C36_SameExpires ==
    [status : AuthzStatus, expires : {resp.expires}, challenges : ChallengeLists,
     identifier : {"wireapp-id", "dns"}]

\* C36: verify() returns Ok when `expires` is absent and when `expires` falls
\* in the current second; it returns Expired only when `expires` is earlier
\* than now; and every authorization with the same `expires`, whatever its
\* status, identifier and challenges, gets the same result.
C36_VerifyExpiresOnly ==
    op = "verify" =>
        /\ ~resp.expires.some => out = Ok(<<>>)
        /\ (/\ resp.expires.some
            /\ unix_timestamp(resp.expires.val) = unix_timestamp(now)) => out = Ok(<<>>)
        /\ out = Err("AcmeAuthzError::Expired") =>
              resp.expires.some /\ resp.expires.val < now
        /\ \A a \in C36_SameExpires : verify(a, now) = out

\* an `expires` earlier than now within the current second, on an
\* authorization whose status is `expired`
C36_Witness ==
    /\ op = "verify"
    /\ resp.status = "expired"
    /\ resp.expires.some
    /\ resp.expires.val < now
    /\ unix_timestamp(resp.expires.val) = unix_timestamp(now)
    /\ out = Ok(<<>>)

\* C36, no `expires`
C36_WitnessAbsent ==
    /\ op = "verify"
    /\ ~resp.expires.some
    /\ resp.challenges = <<>>
    /\ now = MaxTime
    /\ out = Ok(<<>>)

----------------------------------------------------------------------------
(* Claims about the enrollment pipeline, checked under Spec *)

JwsIdx == {i \in DOMAIN log : log[i].kind = "JWS"}

ChallengeSteps == {"verify_dpop_challenge", "verify_oidc_challenge"}

PollSteps == {"check_order", "poll_order"}

\* C1: in an enrollment made of the default steps no ACME nonce appears in the
\* protected header of two outgoing JWS requests.
C1_NonceOnce ==
    flow = "default" =>
        \A i, j \in JwsIdx : i # j => log[i].nonce # log[j].nonce

C1_Witness ==
    /\ flow = "default"
    /\ result = "Ok"
    /\ \E i, j \in JwsIdx : i # j /\ log[i].step = "check_order" /\ log[j].step = "check_order"
    /\ \E i \in JwsIdx : log[i].step = "poll_order"

\* C2: the nonce of each JWS request after the first is the Replay-Nonce of the
\* immediately preceding server response, so the nonces are ordered as the
\* requests are issued; a request of a replaced step that carries another nonce
\* is refused by the server.
C2_NonceChain ==
    \A i \in JwsIdx : (\E j \in JwsIdx : j < i) =>
        /\ flow = "default" =>
              /\ log[i - 1].kind = "JWS"
              /\ log[i - 1].accepted
              /\ log[i - 1].replay = Some(log[i].nonce)
              /\ \A j \in JwsIdx : j < i => log[j].nonce < log[i].nonce
        /\ log[i - 1].replay # Some(log[i].nonce) => ~log[i].accepted

C2_Witness ==
    /\ flow = "default"
    /\ \E i \in JwsIdx : log[i].step = "new_authz" /\ log[i].accepted
    /\ \E i \in JwsIdx : log[i].step = "get_certificate" /\ log[i].accepted

\* C3: the server accepts a JWS request only if its nonce was issued by the
\* server and not consumed by an earlier request; a nonce the server never
\* issued, presented at new_account, ends the enrollment with
\* AccountCreationError, and the nonce of new_order presented again for
\* new_authz ends it with AuthzCreationError.
C3_NonceRejected ==
    /\ \A i \in JwsIdx : log[i].accepted =>
          /\ \E j \in 1..(i - 1) : log[j].accepted /\ log[j].replay = Some(log[i].nonce)
          /\ \A j \in JwsIdx : (j < i /\ log[j].accepted) => log[j].nonce # log[i].nonce
    /\ flow = "no_replay_nonce_requested" =>
          \A i \in JwsIdx : log[i].step = "new_account" =>
              /\ \A j \in 1..(i - 1) : log[j].replay # Some(log[i].nonce)
              /\ ~log[i].accepted
              /\ result = "AccountCreationError"
    /\ flow = "replay_nonce_reused" =>
          \A i \in JwsIdx : log[i].step = "new_authz" =>
              /\ \E j \in JwsIdx : j < i /\ log[j].step = "new_order" /\ log[j].accepted
                                   /\ log[j].nonce = log[i].nonce
              /\ ~log[i].accepted
              /\ result = "AuthzCreationError"

C3_Witness ==
    /\ flow = "replay_nonce_reused"
    /\ result = "AuthzCreationError"
    /\ \E i, j \in JwsIdx : /\ log[i].step = "new_order"
                            /\ log[j].step = "new_authz"
                            /\ log[i].nonce = log[j].nonce

\* the typed errors of each step: the error of its refused request and the
\* errors it reads from the response
C4_ErrorsOf(step) ==
    CASE step = "get_directory" -> {"DirectoryError"}
      [] step = "get_acme_nonce" -> {"NonceError"}
      [] step = "new_account" -> {"AccountCreationError"}
      [] step = "new_order" -> {"OrderCreationError"}
      [] step = "new_authz" -> {"AuthzCreationError", "JsonError", ClientImplementationErrorAuthz}
                               \cup AcmeAuthzError
      [] step = "extract_challenges" -> {"AcmeOrderError::NoChallenge"}
      [] step \in {"get_backend_nonce", "get_access_token"} -> {"WireServerError"}
      [] step = "verify_dpop_challenge" ->
            {"DpopChallengeError", "AcmeChallError::Invalid", ClientImplementationErrorChall}
      [] step = "fetch_id_token" -> {"IdTokenError"}
      [] step = "verify_oidc_challenge" ->
            {"OidcChallengeError", "AcmeChallError::Invalid", ClientImplementationErrorChall}
      [] step = "check_order" ->
            {"OrderError", "AcmeOrderError::Invalid", "AcmeChallError::Processing",
             ClientImplementationErrorOrder}
      [] step = "finalize" -> {"FinalizeError"}
      [] step = "poll_order" ->
            {"OrderError", "AcmeOrderError::Invalid", ClientImplementationErrorOrder}
      [] step = "get_certificate" -> {"CertificateError"}
      [] OTHER -> {}

C4_Failed == result \notin {"none", "Ok"}

C4_State ==
    /\ C4_Failed => (pc = "failed" /\ result \in C4_ErrorsOf(failedAt))
    /\ \A i \in JwsIdx : ~log[i].accepted =>
          (i = Len(log) /\ C4_Failed /\ failedAt = log[i].step)
    /\ \A i, j \in JwsIdx : (i < j /\ log[i].step = log[j].step) =>
          (log[i].step \in PollSteps /\ log[i].body \in {"pending", "processing"})

C4_Step ==
    C4_Failed => UNCHANGED <<pc, result, failedAt, previous_nonce, account, authz, challs,
                             lastOrder, polls, nonceFetches, log>>

C8_Hits(kind) == {i \in DOMAIN authz.challenges : authz.challenges[i].typ = kind}

C8_Selected(kind) ==
    IF kind = "wire-dpop-01" THEN wire_dpop_challenge(authz) ELSE wire_oidc_challenge(authz)

\* C8: for wire-dpop-01 and for wire-oidc-01, selection on the authorization
\* returns the one challenge of that type when there is exactly one and nothing
\* when there is none; the flow goes on past extract_challenges only with both
\* challenges, each of its own type, and fails there when one is absent.
C8_ChallengeSelection ==
    authz.status = "pending" =>
        /\ \A kind \in {"wire-dpop-01", "wire-oidc-01"} :
              /\ C8_Hits(kind) = {} => ~C8_Selected(kind).some
              /\ \A i \in C8_Hits(kind) :
                    C8_Hits(kind) = {i} =>
                        (C8_Selected(kind).some /\ C8_Selected(kind).val = authz.challenges[i])
        /\ pc # "extract_challenges" =>
              /\ (failedAt = "extract_challenges") <=>
                    (C8_Hits("wire-dpop-01") = {} \/ C8_Hits("wire-oidc-01") = {})
              /\ failedAt # "extract_challenges" =>
                    /\ \E i \in C8_Hits("wire-dpop-01") : challs.dpop = authz.challenges[i]
                    /\ \E i \in C8_Hits("wire-oidc-01") : challs.oidc = authz.challenges[i]

C8_Witness ==
    /\ pc = "get_backend_nonce"
    /\ Len(authz.challenges) = MaxChallenges
    /\ challs.dpop = authz.challenges[Len(authz.challenges)]
    /\ challs.oidc.typ = "wire-oidc-01"

\* C9: after a challenge is POSTed the client goes on only when the returned
\* challenge is valid or processing; pending is reported as
\* ClientImplementationError with the reason below and invalid as
\* AcmeChallError::Invalid.
C9_ChallengeResponse ==
    \A i \in JwsIdx : (log[i].step \in ChallengeSteps /\ log[i].accepted) =>
        /\ log[i].body \in {"valid", "processing"} => failedAt # log[i].step
        /\ log[i].body = "pending" =>
              /\ i = Len(log)
              /\ failedAt = log[i].step
              /\ result = "ClientImplementationError(a challenge is not supposed to be pending at this point. It must either be 'valid' or 'processing'.)"
        /\ log[i].body = "invalid" =>
              /\ i = Len(log)
              /\ failedAt = log[i].step
              /\ result = "AcmeChallError::Invalid"
        /\ log[i].body \in ChallengeStatus

C9_Witness ==
    /\ flow = "default"
    /\ failedAt = "verify_oidc_challenge"
    /\ log[Len(log)].body = "pending"
    /\ \E i \in JwsIdx : log[i].step = "verify_dpop_challenge" /\ log[i].body = "processing"

C10_FinalizeSent == Len(log') = Len(log) + 1 /\ log'[Len(log')].step = "finalize"

\* C10: the finalize request is never sent while the order status the client
\* observed last is not `ready`.
C10_FinalizeWhenReady == [][C10_FinalizeSent => lastOrder = "ready"]_vars

C10_Witness ==
    /\ \E i \in JwsIdx : log[i].step = "finalize" /\ log[i].accepted
    /\ \E i \in JwsIdx : log[i].step = "check_order" /\ log[i].body = "pending"

C11_CertificateSent == Len(log') = Len(log) + 1 /\ log'[Len(log')].step = "get_certificate"

\* the client has sent finalize and, in its response or in a later poll, has
\* read the order as valid
C11_ValidAfterFinalize ==
    \E i, j \in JwsIdx :
        /\ i <= j
        /\ log[i].step = "finalize" /\ log[i].accepted
        /\ log[j].step \in {"finalize", "poll_order"} /\ log[j].accepted
        /\ log[j].body = "valid"
        /\ j = Len(log)

\* C11: the certificate URL is requested only after finalize has been sent and
\* the order has then been observed valid; no certificate request is issued
\* while the order is pending, ready, processing or invalid.
C11_CertificateWhenValid ==
    [][C11_CertificateSent =>
          (C11_ValidAfterFinalize /\ lastOrder = "valid" /\ srv.order = "valid")]_vars

C11_Witness ==
    /\ \E i \in JwsIdx : log[i].step = "get_certificate" /\ log[i].accepted
    /\ \E i \in JwsIdx : log[i].step = "finalize" /\ log[i].body = "processing"
    /\ \E i \in JwsIdx : log[i].step = "poll_order" /\ log[i].body = "processing"

\* the challenge submissions the server answered with a challenge
DpopPosts == {i \in JwsIdx : log[i].step = "verify_dpop_challenge" /\ log[i].accepted}

OidcPosts == {i \in JwsIdx : log[i].step = "verify_oidc_challenge" /\ log[i].accepted}

\* a submission the server found invalid ends the enrollment there
RejectedInvalid(i) ==
    /\ log[i].body = "invalid"
    /\ i = Len(log)
    /\ failedAt = log[i].step
    /\ result = "AcmeChallError::Invalid"

Carries(i, payload) == log[i].payload.some /\ log[i].payload.val = payload

\* C12: in a default flow the access token is submitted only to the
\* wire-dpop-01 challenge URL and the id-token only to the wire-oidc-01
\* challenge URL; when the two challenges are handed on inverted, the first
\* submission is found invalid and the enrollment fails with
\* AcmeChallError::Invalid.
C12_ChallengeTypeMatch ==
    /\ flow # "challenges_inverted" =>
          \A i \in JwsIdx :
              /\ Carries(i, "access_token") =>
                    (log[i].url = Url("chall", challs.dpop.url) /\ challs.dpop.typ = "wire-dpop-01")
              /\ Carries(i, "id_token") =>
                    (log[i].url = Url("chall", challs.oidc.url) /\ challs.oidc.typ = "wire-oidc-01")
    /\ flow = "challenges_inverted" =>
          /\ \A i \in JwsIdx :
                Carries(i, "access_token") =>
                    /\ log[i].url = Url("chall", challs.oidc.url)
                    /\ challs.oidc.typ = "wire-oidc-01"
                    /\ log[i].accepted => RejectedInvalid(i)
          /\ \A i \in JwsIdx : ~Carries(i, "id_token") /\ log[i].step # "finalize"
          /\ result # "Ok"

C12_Witness ==
    /\ flow = "challenges_inverted"
    /\ result = "AcmeChallError::Invalid"
    /\ failedAt = "verify_dpop_challenge"
    /\ Carries(Len(log), "access_token")
    /\ log[Len(log)].url = Url("chall", challs.oidc.url)

\* C13: every JWS-wrapped ACME request of an enrollment is signed by the ACME
\* account key; the access token is accepted only if its cnf.kid is the JWK
\* thumbprint of that key; an access token whose inner DPoP proof was signed
\* by another key (the MLS client key) is rejected with
\* AcmeChallError::Invalid.
C13_AccountKeyBound ==
    /\ flow \notin {"dpop_challenge_signed_by_a_different_key",
                    "oidc_challenge_signed_by_a_different_key"} =>
          \A i \in JwsIdx :
              /\ log[i].kp = "acme_kp"
              /\ log[i].kid.some => public_key(log[i].kp) = srv.account_jwk
    /\ \A i \in DpopPosts :
          LET access == tokens.access.claims.custom IN
          /\ log[i].body # "invalid" =>
                /\ access.cnf_kid = thumbprint(srv.account_jwk)
                /\ access.cnf_kid = thumbprint(public_key(log[i].kp))
                /\ access.proof.sig = "acme_kp"
          /\ access.proof.sig # "acme_kp" => RejectedInvalid(i)
    /\ (flow = "client_dpop_token_has_wrong_kid" /\ DpopPosts # {}) =>
          tokens.access.claims.custom.proof.sig = "client_kp"

C13_Witness ==
    /\ flow = "client_dpop_token_has_wrong_kid"
    /\ result = "AcmeChallError::Invalid"
    /\ failedAt = "verify_dpop_challenge"
    /\ tokens.access.claims.custom.cnf_kid = thumbprint(public_key("client_kp"))
    /\ srv.account_jwk = public_key("acme_kp")

\* C14: a challenge submission whose JWS is signed with a key other than the
\* one that created the ACME account is refused; the enrollment fails with
\* DpopChallengeError at the DPoP challenge and with OidcChallengeError at the
\* OIDC challenge, and never reaches finalize.
C14_WrongSigningKey ==
    /\ \A i \in JwsIdx :
          (log[i].step \in ChallengeSteps /\ public_key(log[i].kp) # srv.account_jwk) =>
              /\ ~log[i].accepted
              /\ i = Len(log)
              /\ failedAt = log[i].step
              /\ result = IF log[i].step = "verify_dpop_challenge"
                          THEN "DpopChallengeError"
                          ELSE "OidcChallengeError"
              /\ pc = "failed"
    /\ flow = "dpop_challenge_signed_by_a_different_key" =>
          /\ \A i \in JwsIdx : log[i].step = "verify_dpop_challenge" =>
                (~log[i].accepted /\ result = "DpopChallengeError")
          /\ \A i \in JwsIdx : log[i].step \notin {"verify_oidc_challenge", "finalize"}
          /\ result # "Ok"
    /\ flow = "oidc_challenge_signed_by_a_different_key" =>
          /\ \A i \in JwsIdx : log[i].step = "verify_oidc_challenge" =>
                (~log[i].accepted /\ result = "OidcChallengeError")
          /\ \A i \in JwsIdx : log[i].step # "finalize"
          /\ result # "Ok"

C14_Witness ==
    /\ flow = "oidc_challenge_signed_by_a_different_key"
    /\ result = "OidcChallengeError"
    /\ log[Len(log)].kp = "other_kp"
    /\ \E i \in DpopPosts : log[i].body = "valid"

\* C15 as stated: the ClientId used to create the order equals the `sub` of
\* every later JWT of the flow and the `iss` of the access token; a ClientId
\* that differs from the one sealed in the tokens is rejected with
\* AcmeChallError::Invalid.
C15_Original ==
    \A i \in DpopPosts :
        LET access == tokens.access.claims IN
        /\ log[i].body # "invalid" =>
              /\ access.custom.proof.claims.subject.val = to_uri(srv.client)
              /\ access.subject.val = to_uri(srv.client)
              /\ access.issuer.val = to_uri(srv.client)
        /\ access.custom.proof.claims.subject.val # to_uri(srv.client) => RejectedInvalid(i)

\* C15 amended: the ClientId used to create the order equals the `sub` of the
\* DPoP proof and of the access token and the access token's `client_id`,
\* while the access token's `iss` is the backend URL (htu) of that ClientId's
\* device, not the ClientId; an order created with a ClientId different from
\* the one sealed in the tokens, or tokens sealed for another device, are
\* rejected with AcmeChallError::Invalid.
C15_ClientIdBound ==
    /\ \A i \in DpopPosts :
          LET access == tokens.access.claims
              proof == access.custom.proof.claims
          IN  /\ log[i].body # "invalid" =>
                    /\ proof.subject = Some(to_uri(srv.client))
                    /\ access.subject = Some(to_uri(srv.client))
                    /\ access.custom.client_id = to_uri(srv.client)
                    /\ access.issuer = Some(Htu(srv.client.domain, srv.client.device))
                    /\ access.issuer.val # to_uri(srv.client)
              /\ (\/ proof.subject.val # to_uri(srv.client)
                  \/ access.custom.client_id # proof.subject.val) => RejectedInvalid(i)
    /\ (flow = "access_token_client_id_mismatches" /\ DpopPosts # {}) =>
          /\ srv.client # test_sub
          /\ tokens.access.claims.subject.val = to_uri(test_sub)
    /\ (flow = "access_token_device_id_mismatches_target" /\ DpopPosts # {}) =>
          /\ srv.client = test_sub
          /\ tokens.access.claims.subject.val.device # test_sub.device

C15_Witness ==
    /\ flow = "access_token_client_id_mismatches"
    /\ result = "AcmeChallError::Invalid"
    /\ failedAt = "verify_dpop_challenge"
    /\ tokens.access.claims.custom.proof.claims.subject.val # to_uri(srv.client)

\* C16: the keyauth bound into the id-token is token "." thumbprint, token
\* being the wire-oidc-01 challenge's token and thumbprint the JWK thumbprint
\* of the ACME account key; an id-token obtained with any other keyauth makes
\* the OIDC challenge fail with AcmeChallError::Invalid.
C16_KeyauthPinned ==
    /\ \A i \in OidcPosts :
          LET expected == keyauth(challs.oidc.token, thumbprint(srv.account_jwk)) IN
          /\ log[i].body # "invalid" =>
                /\ tokens.id.keyauth = expected
                /\ challs.oidc.typ = "wire-oidc-01"
                /\ tokens.id.keyauth.thumbprint = thumbprint(public_key("acme_kp"))
          /\ tokens.id.keyauth # expected => RejectedInvalid(i)
    /\ (flow # "invalid_keyauth" /\ pc = "verify_oidc_challenge") =>
          tokens.id.keyauth = [token |-> challs.oidc.token, sep |-> ".",
                               thumbprint |-> thumbprint(public_key("acme_kp"))]
    /\ (flow = "invalid_keyauth" /\ pc = "verify_oidc_challenge") =>
          tokens.id.keyauth.token # challs.oidc.token

C16_Witness ==
    /\ flow = "invalid_keyauth"
    /\ result = "AcmeChallError::Invalid"
    /\ failedAt = "verify_oidc_challenge"
    /\ \E i \in DpopPosts : log[i].body = "valid"

\* C17: the access token is accepted for the DPoP challenge only if the inner
\* DPoP proof's htu and the access token's iss are equal to each other and to
\* the expected backend URL; an access token built with another htu / iss is
\* rejected with AcmeChallError::Invalid.
C17_HtuIssBound ==
    /\ \A i \in DpopPosts :
          LET access == tokens.access.claims
              proof == access.custom.proof.claims
          IN  /\ log[i].body # "invalid" =>
                    /\ proof.custom.htu = access.issuer.val
                    /\ access.issuer = Some(srv.target)
              /\ (\/ proof.custom.htu # access.issuer.val
                  \/ access.issuer.val # srv.target) => RejectedInvalid(i)
    /\ (flow = "access_token_iss_mismatches_target" /\ DpopPosts # {}) =>
          tokens.access.claims.issuer.val # srv.target

C17_Witness ==
    /\ flow = "access_token_iss_mismatches_target"
    /\ result = "AcmeChallError::Invalid"
    /\ failedAt = "verify_dpop_challenge"
    /\ tokens.access.claims.issuer.val.host = "unknown.io"
    /\ tokens.access.claims.custom.proof.claims.custom.htu = tokens.access.claims.issuer.val

\* C18: the aud of the generated DPoP JWT equals the wire-dpop-01 challenge's
\* url; a DPoP token generated with any other audience makes the DPoP
\* challenge fail with AcmeChallError::Invalid.
C18_AudienceBound ==
    /\ (flow # "invalid_dpop_audience" /\ tokens.dpop # NoDpopToken) =>
          tokens.dpop.claims.audiences = Some(Url("chall", challs.dpop.url))
    /\ \A i \in DpopPosts :
          LET proof == tokens.access.claims.custom.proof.claims IN
          /\ log[i].body # "invalid" =>
                (challs.dpop.typ = "wire-dpop-01"
                    /\ proof.audiences = Some(Url("chall", challs.dpop.url)))
          /\ proof.audiences # Some(log[i].url) => RejectedInvalid(i)
    /\ (flow = "invalid_dpop_audience" /\ tokens.dpop # NoDpopToken) =>
          tokens.dpop.claims.audiences # Some(Url("chall", challs.dpop.url))

C18_Witness ==
    /\ flow = "invalid_dpop_audience"
    /\ result = "AcmeChallError::Invalid"
    /\ failedAt = "verify_dpop_challenge"
    /\ tokens.access.claims.custom.proof = tokens.dpop
    /\ tokens.dpop.claims.audiences.val = Url("unknown.com", 0)

----------------------------------------------------------------------------
(* Claims about the DPoP claims, checked under SpecDpop *)

\* C19 as stated: in the claims produced by into_jwt_claims with expiry e,
\* `exp` equals `iat + e`.
C19_Original ==
    jop = "into_jwt_claims" =>
        claims.expires_at = Some(claims.issued_at.val + args.expiry)

\* C19 amended: `exp` is the clock read when the claims are created plus the
\* whole seconds of e, while `iat` is the clock read just before minus
\* NOW_LEEWAY_SECONDS; so `exp` equals `iat + NOW_LEEWAY_SECONDS + e` for an
\* expiry of whole seconds when the clock does not move between the two
\* reads.
C19_ExpFromClock ==
    jop = "into_jwt_claims" =>
        /\ claims.expires_at = Some(args.env.claims_now + from_secs(as_secs(args.expiry)))
        /\ claims.expires_at.val =
              claims.issued_at.val + from_secs(NOW_LEEWAY_SECONDS)
                  + from_secs(as_secs(args.expiry)) + (args.env.claims_now - args.env.now)

C19_Witness ==
    /\ jop = "into_jwt_claims"
    /\ args.expiry = from_secs(1)
    /\ args.env.claims_now = args.env.now
    /\ claims.expires_at.val - claims.issued_at.val = from_secs(3601)

\* C20: into_jwt_claims sets `iat` and `nbf` to the same instant, the current
\* time minus NOW_LEEWAY_SECONDS = 3600 seconds, whatever the expiry.
C20_IatNbfLeeway ==
    jop = "into_jwt_claims" =>
        /\ NOW_LEEWAY_SECONDS = 3600
        /\ claims.issued_at = Some(args.env.now - from_secs(3600))
        /\ claims.invalid_before = claims.issued_at
        /\ \A e \in 0..MaxExpiry :
              LET c == into_jwt_claims(args.self, args.nonce, args.client_id, e,
                                       args.audience, args.env)
              IN  c.issued_at = claims.issued_at /\ c.invalid_before = claims.issued_at

C20_Witness ==
    /\ jop = "into_jwt_claims"
    /\ args.expiry = MaxExpiry
    /\ args.env.claims_now > args.env.now
    /\ claims.issued_at.val = claims.invalid_before.val
    /\ claims.issued_at.val + from_secs(3600) = args.env.now

----------------------------------------------------------------------------
(* Claims about verify_jwt, verify_jwt_header and jwt_error_mapping        *)
(* (SpecVerify). The conditions below are read off the arguments of the    *)
(* call, not off what verify_jwt computed.                                 *)

\* verify_jwt returned an error of this kind
Rejected(kind) == jop = "verify_jwt" /\ ~res.ok /\ res.err.kind = kind

\* verify_jwt returned MissingTokenClaim naming this claim
RejectedMissing(claim) == Rejected("MissingTokenClaim") /\ res.err.claim = claim

Accepted == jop = "verify_jwt" /\ res.ok

Tolerance == from_secs(args.verify.leeway)

SignedByKey == public_key(args.token.sig) = args.key

\* the token carries every custom claim of a Dpop, so its claims decode
Decodes == DpopJson \subseteq args.token.claims.custom

IatInTime ==
    args.token.claims.issued_at.some
        => args.token.claims.issued_at.val <= args.clock + Tolerance

NbfInTime ==
    args.token.claims.invalid_before.some
        => args.token.claims.invalid_before.val <= args.clock + Tolerance

ExpInTime ==
    args.token.claims.expires_at.some
        => args.token.claims.expires_at.val >= args.clock - Tolerance

SubExpected ==
    /\ args.token.claims.subject.some
    /\ args.token.claims.subject.val = to_uri(args.verify.client_id)

NonceExpected ==
    args.verify.backend_nonce.some =>
        /\ args.token.claims.nonce.some
        /\ args.token.claims.nonce.val = args.verify.backend_nonce.val

AllPresent ==
    /\ args.token.claims.jwt_id.some
    /\ args.token.claims.issued_at.some
    /\ args.token.claims.invalid_before.some
    /\ args.token.claims.expires_at.some

\* C21 as stated: TokenLivesTooLong is reported only for a token whose
\* lifetime `exp - iat` exceeds `max_expiration`.
C21_Original ==
    Rejected("TokenLivesTooLong") =>
        args.token.claims.expires_at.val - args.token.claims.issued_at.val
            > from_secs(args.max_expiration)

\* C21 amended: verify_jwt reports TokenLivesTooLong only for a token whose
\* `exp`, in seconds since the epoch, is later than `max_expiration`, and it
\* does so for every such token that passes the checks made before.
C21_ExpThreshold ==
    jop = "verify_jwt" /\ args.fn = "verify_jwt" =>
        /\ Rejected("TokenLivesTooLong") =>
              /\ args.token.claims.expires_at.some
              /\ args.token.claims.expires_at.val > from_secs(args.max_expiration)
        /\ (/\ SignedByKey /\ Decodes /\ IatInTime /\ NbfInTime /\ ExpInTime
            /\ SubExpected /\ NonceExpected /\ AllPresent
            /\ args.token.claims.expires_at.val > from_secs(args.max_expiration))
              => Rejected("TokenLivesTooLong")

C21_Witness ==
    /\ Rejected("TokenLivesTooLong")
    /\ args.token.claims.expires_at.val - args.token.claims.issued_at.val
          <= from_secs(args.max_expiration)
    /\ args.token.claims.expires_at.val > from_secs(args.max_expiration)

\* the claim of this name is absent from the token handed to verify_jwt
Absent(claim) ==
    CASE claim = "jti" -> ~args.token.claims.jwt_id.some
      [] claim = "iat" -> ~args.token.claims.issued_at.some
      [] claim = "nbf" -> ~args.token.claims.invalid_before.some
      [] claim = "exp" -> ~args.token.claims.expires_at.some
      [] claim = "sub" -> ~args.token.claims.subject.some
      [] claim = "nonce" -> ~args.token.claims.nonce.some
      [] OTHER -> claim \in DpopJson /\ claim \notin args.token.claims.custom

\* the claims verify_jwt requires of the token of this call
RequiredClaims ==
    {"jti", "iat", "nbf", "exp", "sub"}
        \cup (IF args.verify.backend_nonce.some THEN {"nonce"} ELSE {})

\* the subject, if the token names one, is the expected one
SubNotWrong ==
    args.token.claims.subject.some
        => args.token.claims.subject.val = to_uri(args.verify.client_id)

\* the nonce, if one is expected and the token names one, is the expected one
NonceNotWrong ==
    args.verify.backend_nonce.some /\ args.token.claims.nonce.some
        => args.token.claims.nonce.val = args.verify.backend_nonce.val

\* C22: verify_jwt accepts a token only if jti, iat, nbf, exp and sub are all
\* present, and nonce too when a backend nonce is expected; a token lacking
\* one of them is never accepted, a MissingTokenClaim error names a claim the
\* token lacks (one of these, or a claim of the Dpop the token is read as), and
\* a token whose only defect is a missing one of them is rejected with
\* MissingTokenClaim.
C22_RequiredClaims ==
    jop = "verify_jwt" /\ args.fn = "verify_jwt" =>
        /\ Accepted => \A claim \in RequiredClaims : ~Absent(claim)
        /\ Rejected("MissingTokenClaim") =>
              res.err.claim \in RequiredClaims \cup DpopJson /\ Absent(res.err.claim)
        /\ (/\ \E claim \in RequiredClaims : Absent(claim)
            /\ SignedByKey /\ Decodes /\ IatInTime /\ NbfInTime /\ ExpInTime
            /\ SubNotWrong /\ NonceNotWrong)
              => Rejected("MissingTokenClaim")

C22_Witness ==
    /\ RejectedMissing("jti")
    /\ args.verify.backend_nonce.some
    /\ \A claim \in RequiredClaims \ {"jti"} : ~Absent(claim)

\* the token names a subject other than the URI of the expected ClientId
SubDiffers ==
    /\ args.token.claims.subject.some
    /\ args.token.claims.subject.val # to_uri(args.verify.client_id)

\* C23: a token whose `sub` differs from the URI of the expected ClientId is
\* never accepted, and is rejected with TokenSubMismatch whenever its
\* signature and times pass (the checks made before the subject's);
\* TokenSubMismatch is reported for no other token, and an accepted token has
\* `sub` equal to that URI.
C23_SubMismatch ==
    jop = "verify_jwt" /\ args.fn = "verify_jwt" =>
        /\ Accepted => SubExpected
        /\ SubDiffers => ~Accepted
        /\ SubDiffers /\ SignedByKey /\ Decodes /\ IatInTime /\ NbfInTime /\ ExpInTime
              => Rejected("TokenSubMismatch")
        /\ Rejected("TokenSubMismatch") => SubDiffers

C23_Witness ==
    /\ Rejected("TokenSubMismatch")
    /\ args.token.claims.subject.val = to_uri(rand_client_id(test_sub.device))
    /\ ~args.token.claims.jwt_id.some

\* a backend nonce is expected and the token names another
NonceDiffers ==
    /\ args.verify.backend_nonce.some
    /\ args.token.claims.nonce.some
    /\ args.token.claims.nonce.val # args.verify.backend_nonce.val

\* the nonce claims a token may carry
JwtNonces == {NoneStr, Some("backend-nonce"), Some("other-nonce")}

\* C24: with an expected backend nonce, a token naming another nonce is never
\* accepted, and is rejected with DpopNonceMismatch whenever its signature,
\* times and subject pass; with no expected nonce, the result (acceptance or
\* the error) is the same whatever nonce the token carries, or none.
C24_NonceMismatch ==
    jop = "verify_jwt" /\ args.fn = "verify_jwt" =>
        /\ NonceDiffers => ~Accepted
        /\ NonceDiffers /\ SignedByKey /\ Decodes /\ IatInTime /\ NbfInTime /\ ExpInTime /\ SubExpected
              => Rejected("DpopNonceMismatch")
        /\ Rejected("DpopNonceMismatch") => NonceDiffers
        /\ ~args.verify.backend_nonce.some =>
              \A n \in JwtNonces :
                 LET other == verify_jwt([args.token EXCEPT !.claims.nonce = n], args.key,
                                         args.max_expiration, args.verify, args.clock)
                 IN  /\ other.ok = res.ok
                     /\ ~res.ok => other.err = res.err

C24_Witness ==
    /\ Rejected("DpopNonceMismatch")
    /\ args.token.claims.nonce = Some("other-nonce")
    /\ args.verify.backend_nonce = Some("backend-nonce")

\* C24, second half: a call with no expected nonce accepting a token that
\* carries a nonce
C24_WitnessNoNonce ==
    /\ Accepted
    /\ ~args.verify.backend_nonce.some
    /\ args.token.claims.nonce = Some("other-nonce")

\* the token's `exp` is earlier than the clock minus the leeway
ExpPassed ==
    /\ args.token.claims.expires_at.some
    /\ args.token.claims.expires_at.val < args.clock - Tolerance

\* C25: with leeway L, a token whose `exp` is earlier than now - L is never
\* accepted, and is rejected with TokenExpired whenever its signature, `iat`
\* and `nbf` pass; expiry is never reported for a token whose `exp` is at or
\* after now - L.
C25_Expired ==
    jop = "verify_jwt" /\ args.fn = "verify_jwt" =>
        /\ ExpPassed => ~Accepted
        /\ ExpPassed /\ SignedByKey /\ Decodes /\ IatInTime /\ NbfInTime => Rejected("TokenExpired")
        /\ Rejected("TokenExpired") => ExpPassed

C25_Witness ==
    /\ Rejected("TokenExpired")
    /\ args.verify.leeway > 0
    /\ args.token.claims.expires_at.val < args.clock - from_secs(args.verify.leeway)

\* C25, boundary: a token accepted with `exp` exactly now - L
C25_WitnessBoundary ==
    /\ Accepted
    /\ args.verify.leeway > 0
    /\ args.token.claims.expires_at.val = args.clock - from_secs(args.verify.leeway)

\* the token's `nbf` is later than the clock plus the leeway
NbfAhead ==
    /\ args.token.claims.invalid_before.some
    /\ args.token.claims.invalid_before.val > args.clock + Tolerance

\* C26: with leeway L, a token whose `nbf` is later than now + L is never
\* accepted, and is rejected with DpopNotYetValid whenever its signature and
\* `iat` pass; DpopNotYetValid is never reported for `nbf` up to and including
\* now + L, and a token right in everything else is accepted with such `nbf`.
C26_NotYetValid ==
    jop = "verify_jwt" /\ args.fn = "verify_jwt" =>
        /\ NbfAhead => ~Accepted
        /\ NbfAhead /\ SignedByKey /\ Decodes /\ IatInTime => Rejected("DpopNotYetValid")
        /\ Rejected("DpopNotYetValid") => NbfAhead
        /\ (/\ ~NbfAhead /\ SignedByKey /\ Decodes /\ IatInTime /\ ExpInTime
            /\ SubExpected /\ NonceExpected /\ AllPresent
            /\ args.token.claims.expires_at.val <= from_secs(args.max_expiration))
              => Accepted

C26_Witness ==
    /\ Rejected("DpopNotYetValid")
    /\ args.verify.leeway > 0
    /\ args.token.claims.invalid_before.val > args.clock + from_secs(args.verify.leeway)

\* C26, boundary: a token accepted with `nbf` exactly now + L
C26_WitnessBoundary ==
    /\ Accepted
    /\ args.verify.leeway > 0
    /\ args.token.claims.invalid_before.val = args.clock + from_secs(args.verify.leeway)

\* the token's `iat` is later than the clock plus the leeway
IatAhead ==
    /\ args.token.claims.issued_at.some
    /\ args.token.claims.issued_at.val > args.clock + Tolerance

\* C27: with leeway L, a token whose `iat` is later than now + L is rejected
\* with InvalidDpopIat whenever its signature holds, whatever else is wrong
\* with it; clock drift is never reported for a token whose `iat` is at most
\* now + L.
C27_ClockDrift ==
    jop = "verify_jwt" /\ args.fn = "verify_jwt" =>
        /\ IatAhead => ~Accepted
        /\ IatAhead /\ SignedByKey /\ Decodes => Rejected("InvalidDpopIat")
        /\ Rejected("InvalidDpopIat") => IatAhead

C27_Witness ==
    /\ Rejected("InvalidDpopIat")
    /\ args.verify.leeway > 0
    /\ args.token.claims.issued_at.val > args.clock + from_secs(args.verify.leeway)
    /\ ExpPassed

\* the reasons jwt_error_mapping is documented to recognise, each with the
\* error it stands for: <<text, exact match or prefix, kind, claim named>>
C28_Table ==
    {<<"Required subject missing", TRUE, "MissingTokenClaim", "sub">>,
     <<"Required nonce missing", TRUE, "MissingTokenClaim", "nonce">>,
     <<"Required subject mismatch", TRUE, "TokenSubMismatch", "">>,
     <<"Required nonce mismatch", TRUE, "DpopNonceMismatch", "">>,
     <<"Required issuer mismatch", TRUE, "DpopHtuMismatch", "">>,
     <<"Clock drift detected", TRUE, "InvalidDpopIat", "">>,
     <<"Token not valid yet", TRUE, "DpopNotYetValid", "">>,
     <<"Token has expired", TRUE, "TokenExpired", "">>,
     <<"Invalid JWK in DPoP token", TRUE, "InvalidDpopJwk", "">>,
     <<"Required issuer missing", TRUE, "MissingIssuer", "">>,
     <<"missing field chal", FALSE, "MissingTokenClaim", "chal">>,
     <<"missing field htm", FALSE, "MissingTokenClaim", "htm">>,
     <<"missing field htu", FALSE, "MissingTokenClaim", "htu">>,
     <<"missing field cnf", FALSE, "MissingTokenClaim", "cnf">>,
     <<"missing field proof", FALSE, "MissingTokenClaim", "proof">>,
     <<"missing field api_version", FALSE, "MissingTokenClaim", "api_version">>,
     <<"missing field client_id", FALSE, "MissingTokenClaim", "client_id">>,
     <<"missing field scope", FALSE, "MissingTokenClaim", "scope">>,
     <<"missing field handle", FALSE, "MissingTokenClaim", "handle">>}

\* the rows of the table a reason text falls under
C28_Rows(r) == {row \in C28_Table : r.head = row[1] /\ (row[2] => r.tail = "")}

\* C28: jwt_error_mapping is a function of the reason text alone; a text that
\* is one of the recognised reasons (or, for a missing field, begins with it)
\* maps to the error kind fixed for that reason, "Token has expired" to
\* TokenExpired and so on; two texts falling under different recognised
\* reasons never map to the same error value; and every other text maps to
\* InvalidToken keeping the text.
C28_ErrorMapping ==
    jop = "jwt_error_mapping" /\ args.fn = "jwt_error_mapping" =>
        /\ res = jwt_error_mapping(args.reason)
        /\ \A row \in C28_Rows(args.reason) :
              /\ res.kind = row[3]
              /\ res.claim = row[4]
              /\ res.kind # "InvalidToken"
        /\ \A r \in Reasons :
              (/\ C28_Rows(r) # {}
               /\ C28_Rows(args.reason) # {}
               /\ C28_Rows(r) # C28_Rows(args.reason))
                  => jwt_error_mapping(r) # res
        /\ C28_Rows(args.reason) = {} => res = InvalidToken(args.reason)
        /\ is(args.reason, "Token has expired") => res.kind = "TokenExpired"
        /\ is(args.reason, "Required nonce mismatch") => res.kind = "DpopNonceMismatch"
        /\ is(args.reason, "Required issuer mismatch") => res.kind = "DpopHtuMismatch"
        /\ is(args.reason, "Clock drift detected") => res.kind = "InvalidDpopIat"
        /\ is(args.reason, "Token not valid yet") => res.kind = "DpopNotYetValid"

C28_Witness ==
    /\ jop = "jwt_error_mapping"
    /\ args.reason = Exact("Required nonce mismatch")
    /\ res = RustyJwtError("DpopNonceMismatch")

\* C28, prefixes: a serde reason with a position after it
C28_WitnessPrefix ==
    /\ jop = "jwt_error_mapping"
    /\ args.reason = Reason("missing field chal", " at line 1 column 2")
    /\ res = MissingTokenClaim("chal")

\* C28, default: a recognised text with something after it is not recognised
C28_WitnessDefault ==
    /\ jop = "jwt_error_mapping"
    /\ args.reason = Reason("Token has expired", " at line 1 column 2")
    /\ res.kind = "InvalidToken"

\* the JwsAlgorithm each supported header algorithm names
C29_Supported ==
    {<<"EdDSA", "Ed25519">>, <<"ES256", "P256">>, <<"ES384", "P384">>}

\* C29: verify_jwt_header succeeds exactly when the header `alg` is that of
\* Ed25519 (EdDSA), ES256 or ES384, and then returns the algorithm the token
\* names; a token with any other algorithm is rejected.
C29_HeaderAlgorithm ==
    jop = "verify_jwt_header" /\ args.fn = "verify_jwt_header" =>
        /\ res.ok <=> \E pair \in C29_Supported : args.token.header.alg = pair[1]
        /\ \A pair \in C29_Supported :
              args.token.header.alg = pair[1] => res.ok /\ res.val = pair[2]

C29_Witness ==
    /\ jop = "verify_jwt_header"
    /\ args.token.header.alg = "ES384"
    /\ res.ok
    /\ res.val = "P384"

\* C29, rejection: a token naming ES512
C29_WitnessRejected ==
    /\ jop = "verify_jwt_header"
    /\ args.token.header.alg = "ES512"
    /\ ~res.ok

----------------------------------------------------------------------------
(* Claims about termination (SpecLive) *)

\* the run has ended: with the certificate, or with a typed error at a step
Terminated ==
    \/ result = "Ok" /\ pc = "done"
    \/ result \notin {"none", "Ok"} /\ pc = "failed" /\ failedAt # "none"

\* C30: every enrollment terminates: the client never issues more than
\* MaxPolls polls in a polling phase, so under fair scheduling a run
\* eventually ends with a certificate or with a typed error, and stays ended.
C30_Terminates ==
    /\ [](polls <= MaxPolls)
    /\ <>[]Terminated

\* a run ended because the order was still processing at the last poll
C30_Witness ==
    /\ Terminated
    /\ polls = MaxPolls
    /\ failedAt = "poll_order"
    /\ lastOrder = "processing"

----------------------------------------------------------------------------
(* Claims about the JSON form of an authorization (SpecJson) *)

----------------------------------------------------------------------------
(* Claims about new_authz_request (SpecRequest) *)

C32_WitnessNoAccountUrl ==
    /\ jop = "new_authz_request"
    /\ ~args.account.acct_url.some
    /\ ~res.ok

----------------------------------------------------------------------------
(* Claims about the default arm of jwt_error_mapping (SpecVerify) *)

\* the reason texts the match compares with `==`
C33_ExactTexts ==
    {"Required subject missing", "Required nonce missing", "Required subject mismatch",
     "Required nonce mismatch", "Required issuer mismatch", "Clock drift detected",
     "Token not valid yet", "Token has expired", "Invalid JWK in DPoP token",
     "Required issuer missing"}

\* the beginnings the match tests with starts_with
C33_Prefixes ==
    {"missing field chal", "missing field htm", "missing field htu",
     "missing field cnf", "missing field proof", "missing field api_version",
     "missing field client_id", "missing field scope", "missing field handle"}

C33_Recognised ==
    \/ \E text \in C33_ExactTexts : is(args.reason, text)
    \/ \E prefix \in C33_Prefixes : starts_with(args.reason, prefix)

\* C33: a failure reason that is none of the exact reasons and begins with
\* none of the `missing field` prefixes comes back as InvalidToken carrying
\* the reason text as it was, beginning and end.
C33_DefaultArm ==
    (jop = "jwt_error_mapping" /\ ~C33_Recognised) =>
        /\ res.kind = "InvalidToken"
        /\ res.claim = ""
        /\ res.reason.head = args.reason.head
        /\ res.reason.tail = args.reason.tail

C33_Witness ==
    /\ jop = "jwt_error_mapping"
    /\ ~C33_Recognised
    /\ args.reason = Reason("Invalid signature", " at line 1 column 9")
    /\ res = InvalidToken(Reason("Invalid signature", " at line 1 column 9"))

\* C33, the empty reason text
C33_WitnessEmpty ==
    /\ jop = "jwt_error_mapping"
    /\ args.reason = Exact("")
    /\ res = InvalidToken(Exact(""))

----------------------------------------------------------------------------
(* Claims about the order of the checks of verify_jwt (SpecVerify) *)

\* every check of the library passes: signature, decoding, times, subject
\* and nonce (no issuer is required of a DPoP token)
C34_LibraryPasses ==
    /\ SignedByKey /\ Decodes
    /\ IatInTime /\ NbfInTime /\ ExpInTime
    /\ SubExpected
    /\ NonceExpected

\* the errors a failing check of the library is reported as
C34_LibraryErrors ==
    {"InvalidToken", "TokenSubMismatch", "DpopNonceMismatch", "DpopHtuMismatch",
     "MissingIssuer", "InvalidDpopIat", "DpopNotYetValid", "TokenExpired",
     "InvalidDpopJwk"}

\* the presence checks verify_jwt makes itself, in their order
C34_Presence == <<"jti", "exp", "iat", "nbf">>

\* C34: verify_jwt returns one error, that of the first failing check: a
\* failing check of the library (signature, subject, nonce, issuer, time)
\* whatever else is wrong with the token; then the first of jti, exp, iat and
\* nbf that is absent; and TokenLivesTooLong only when every other check has
\* passed; a token passing all of them is accepted.
C34_FirstFailing ==
    jop = "verify_jwt" /\ args.fn = "verify_jwt" =>
        /\ ~C34_LibraryPasses =>
              /\ ~res.ok
              /\ \/ res.err.kind \in C34_LibraryErrors
                 \/ /\ res.err.kind = "MissingTokenClaim"
                    /\ res.err.claim \in {"sub", "nonce"} \cup DpopJson
        /\ \A i \in 1..Len(C34_Presence) :
              (/\ C34_LibraryPasses
               /\ Absent(C34_Presence[i])
               /\ \A j \in 1..(i - 1) : ~Absent(C34_Presence[j]))
                  => res = Err(MissingTokenClaim(C34_Presence[i]))
        /\ Rejected("TokenLivesTooLong") => C34_LibraryPasses /\ AllPresent
        /\ (C34_LibraryPasses /\ AllPresent) =>
              \/ res = Err(RustyJwtError("TokenLivesTooLong"))
              \/ res = Ok(args.token.claims)

\* a token lacking all four claims is reported for `jti`
C34_Witness ==
    /\ jop = "verify_jwt"
    /\ C34_LibraryPasses
    /\ Absent("jti") /\ Absent("exp") /\ Absent("iat") /\ Absent("nbf")
    /\ res = Err(MissingTokenClaim("jti"))

\* C34, library first: a wrong subject on a token that also lacks `jti`
C34_WitnessLibraryFirst ==
    /\ Rejected("TokenSubMismatch")
    /\ Absent("jti")
    /\ args.token.claims.expires_at.some
    /\ args.token.claims.expires_at.val > from_secs(args.max_expiration)

\* C34, presence before the threshold: `exp` too late on a token lacking `nbf`
C34_WitnessPresenceFirst ==
    /\ RejectedMissing("nbf")
    /\ args.token.claims.expires_at.some
    /\ args.token.claims.expires_at.val > from_secs(args.max_expiration)

----------------------------------------------------------------------------
(* Claims about DPoP tokens lacking a protocol claim (SpecVerify) *)

\* the token handed to verify_jwt is signed by the key and lacks this
\* protocol claim and no other
C35_LacksOnly(claim) ==
    /\ jop = "verify_jwt"
    /\ SignedByKey
    /\ DpopJson \ args.token.claims.custom = {claim}

\* C35: a DPoP token that lacks any one of htm, htu, chal, handle and team is
\* rejected with MissingTokenClaim naming that claim.
C35_MissingProtocolClaim ==
    \A claim \in DpopJson : C35_LacksOnly(claim) => RejectedMissing(claim)

\* what the code does: the four claims jwt_error_mapping has an arm for are
\* named; a token lacking `team` is rejected as InvalidToken carrying serde's
\* reason
C35_MissingProtocolClaimButTeam ==
    /\ \A claim \in DpopJson \ {"team"} : C35_LacksOnly(claim) => RejectedMissing(claim)
    /\ C35_LacksOnly("team") => res = Err(InvalidToken(Exact("missing field team")))

C35_Witness ==
    /\ C35_LacksOnly("handle")
    /\ RejectedMissing("handle")

C35_WitnessTeam ==
    /\ C35_LacksOnly("team")
    /\ Rejected("InvalidToken")

----------------------------------------------------------------------------
(* Claims about verifying the claims into_jwt_claims builds (SpecDpop) *)

\* the errors a freshly generated token is never rejected with
C37_Excluded ==
    {"MissingTokenClaim", "TokenSubMismatch", "DpopNonceMismatch", "DpopNotYetValid",
     "InvalidDpopIat", "TokenExpired"}

C37_WitnessLater ==
    /\ jop = "verify_generated"
    /\ res.clock > args.env.claims_now
    /\ args.expiry = 0
    /\ res.verify.leeway = 0
    /\ ~res.out.ok
    /\ res.out.err = RustyJwtError("TokenExpired")

====
